---- MODULE Spec2Model ----
(***************************************************************************)
(* Verification model of the AMM math library (rust-sidecar/src/dex):      *)
(* Uniswap V2, Uniswap V3, Curve and Balancer swap, sandwich-profit and    *)
(* optimiser functions.                                                    *)
(*                                                                         *)
(* U256 and U512 values are natural numbers written as little-endian       *)
(* sequences of limbs in base 2^15 without trailing zero limbs, so that    *)
(* equality of values is equality of sequences.  The arithmetic below is   *)
(* exact; the width of a Rust integer type is imposed where the code       *)
(* checks, saturates or panics.                                            *)
(***************************************************************************)
EXTENDS Integers, Sequences, FiniteSets, TLC

Base == 2^15

\* F applied to the value v, which is computed once, before F is applied
With(v, F(_)) == IF v = v THEN F(v) ELSE F(v)

RECURSIVE Norm(_)
Norm(s) == IF s = <<>> THEN s
           ELSE IF s[Len(s)] = 0 THEN Norm(SubSeq(s, 1, Len(s) - 1)) ELSE s

\* U256::from(n) for a machine integer n >= 0
RECURSIVE N(_)
N(n) == IF n = 0 THEN <<>> ELSE <<n % Base>> \o N(n \div Base)

Limb(a, i) == IF i <= Len(a) THEN a[i] ELSE 0

\* the limbs of a sum from the limb sum t on
RECURSIVE AddC(_, _, _, _)
AddC(a, b, i, c) ==
    IF i > Len(a) /\ i > Len(b)
    THEN IF c = 0 THEN <<>> ELSE <<c>>
    ELSE <<(Limb(a, i) + Limb(b, i) + c) % Base>>
         \o AddC(a, b, i + 1, (Limb(a, i) + Limb(b, i) + c) \div Base)

BAdd(a, b) == AddC(a, b, 1, 0)

RECURSIVE CmpFrom(_, _, _)
CmpFrom(a, b, i) ==
    IF i = 0 THEN 0
    ELSE IF a[i] < b[i] THEN -1
    ELSE IF a[i] > b[i] THEN 1
    ELSE CmpFrom(a, b, i - 1)

BCmp(a, b) == IF Len(a) < Len(b) THEN -1
              ELSE IF Len(a) > Len(b) THEN 1
              ELSE CmpFrom(a, b, Len(a))

BLt(a, b) == BCmp(a, b) < 0

BLe(a, b) == BCmp(a, b) <= 0

BMax(a, b) == IF BLt(a, b) THEN b ELSE a

BMin(a, b) == IF BLt(b, a) THEN b ELSE a

RECURSIVE SubC(_, _, _, _)
SubC(a, b, i, c) ==
    IF i > Len(a) THEN <<>>
    ELSE <<(a[i] - Limb(b, i) - c) % Base>>
         \o SubC(a, b, i + 1, IF a[i] - Limb(b, i) - c < 0 THEN 1 ELSE 0)

\* a - b for b <= a
BSub(a, b) == Norm(SubC(a, b, 1, 0))

RECURSIVE MulSmallC(_, _, _, _)
MulSmallC(a, d, i, c) ==
    IF i > Len(a) THEN IF c = 0 THEN <<>> ELSE <<c>>
    ELSE <<(a[i] * d + c) % Base>>
         \o MulSmallC(a, d, i + 1, (a[i] * d + c) \div Base)

\* a * d for one limb d
MulSmall(a, d) == IF d = 0 THEN <<>> ELSE MulSmallC(a, d, 1, 0)

\* a shifted up by k limbs
ShiftLimbs(a, k) == IF a = <<>> THEN <<>> ELSE [i \in 1..k |-> 0] \o a

\* a times the limbs lo..hi of b, as a multiple of Base^(lo - 1)
RECURSIVE MulRun(_, _, _, _)
MulRun(a, b, lo, hi) ==
    IF lo = hi THEN MulSmall(a, b[lo])
    ELSE With(MulRun(a, b, (lo + hi) \div 2 + 1, hi),
              LAMBDA upper : BAdd(MulRun(a, b, lo, (lo + hi) \div 2),
                                  ShiftLimbs(upper, (lo + hi) \div 2 + 1 - lo)))

BMul(a, b) == IF a = <<>> \/ b = <<>> THEN <<>> ELSE MulRun(a, b, 1, Len(b))

\* the largest q in lo..hi with q * b <= r
RECURSIVE QDigit(_, _, _, _)
QDigit(r, b, lo, hi) ==
    IF lo = hi THEN lo
    ELSE IF BLe(MulSmall(b, (lo + hi + 1) \div 2), r)
         THEN QDigit(r, b, (lo + hi + 1) \div 2, hi)
         ELSE QDigit(r, b, lo, (lo + hi + 1) \div 2 - 1)

\* the two leading limbs of r against a divisor of n limbs
QTop(r, n) == IF Len(r) > n THEN r[n + 1] * Base + r[n] ELSE r[n]

\* the quotient limb of r by b, for b <= r < b * Base: the leading limbs
\* give it for a divisor of one limb and bracket it for a longer one, where
\* the search settles it
QEst(r, b, rtop, btop) ==
    IF Len(b) = 1 THEN rtop \div btop
    ELSE QDigit(r, b, rtop \div (btop + 1),
                IF rtop \div btop > Base - 1 THEN Base - 1 ELSE rtop \div btop)

\* the quotient limb of r by b, for r < b * Base
QLimb(r, b) ==
    IF BLt(r, b) THEN 0 ELSE QEst(r, b, QTop(r, Len(b)), b[Len(b)])

\* one step of long division: after the quotient limbs q, with limb a_i of
\* the dividend brought down to the remainder r, <<the quotient limbs, the
\* remainder>>
DivSub(b, q, r1, d) == << <<d>> \o q, BSub(r1, MulSmall(b, d)) >>

DivPut(b, q, r1) == DivSub(b, q, r1, QLimb(r1, b))

DivOne(b, qr, a_i) == DivPut(b, qr[1], Norm(<<a_i>> \o qr[2]))

\* the steps of long division for the limbs hi down to lo of a, the upper
\* half of them first
RECURSIVE DivRun(_, _, _, _, _)
DivRun(a, b, qr, hi, lo) ==
    IF hi = lo THEN DivOne(b, qr, a[hi])
    ELSE With(DivRun(a, b, qr, hi, (hi + lo) \div 2 + 1),
              LAMBDA qr1 : DivRun(a, b, qr1, (hi + lo) \div 2, lo))

\* <<a / b, a % b>>: the limbs of a above the quotient's are the first
\* remainder
DivLong(a, b) ==
    IF Len(a) < Len(b) THEN <<<<>>, a>>
    ELSE With(DivRun(a, b, << <<>>, SubSeq(a, Len(a) - Len(b) + 2, Len(a)) >>,
                     Len(a) - Len(b) + 1, 1),
              LAMBDA qr : <<Norm(qr[1]), qr[2]>>)

\* a / b and a % b after both were scaled by f
DivScaled(af, bf, f) ==
    With(DivLong(af, bf), LAMBDA qr : <<qr[1], DivLong(qr[2], <<f>>)[1]>>)

\* <<a / b, a % b>> for b # 0: long division after scaling both by f, so that
\* the divisor's leading limb is large
BDivMod(a, b) ==
    IF Len(b) = 1 \/ b[Len(b)] >= Base \div 2 THEN DivLong(a, b)
    ELSE With(Base \div (b[Len(b)] + 1),
              LAMBDA f : DivScaled(MulSmall(a, f), MulSmall(b, f), f))

BDiv(a, b) == BDivMod(a, b)[1]

BMod(a, b) == BDivMod(a, b)[2]

\* 2^k
Pow2(k) == [i \in 1..(k \div 15 + 1) |-> IF i = k \div 15 + 1 THEN 2^(k % 15) ELSE 0]

\* 10^k, by squaring
RECURSIVE Pow10(_)
Pow10(k) ==
    IF k = 0 THEN <<1>>
    ELSE IF k % 2 = 1 THEN With(Pow10(k - 1), LAMBDA p : MulSmall(p, 10))
    ELSE With(Pow10(k \div 2), LAMBDA h : BMul(h, h))

\* the decimal number whose groups of four digits are g[lo..hi], the most
\* significant first: the upper half of the groups shifted over the lower
RECURSIVE DecRange(_, _, _)
DecRange(g, lo, hi) ==
    IF lo = hi THEN N(g[lo])
    ELSE With(DecRange(g, lo, (lo + hi) \div 2),
              LAMBDA upper : BAdd(BMul(upper, Pow10(4 * (hi - (lo + hi) \div 2))),
                                  DecRange(g, (lo + hi) \div 2 + 1, hi)))

\* a decimal literal given as its groups of four digits, most significant first
Dec(g) == DecRange(g, 1, Len(g))

\* U256::MAX
MaxU256 == BSub(Pow2(256), <<1>>)

\* mutant: a checked operation that never reports overflow
FitsU256_unchecked(v) == TRUE

\* what checked_add and checked_mul test: at most 256 bits, which is 17
\* limbs and a top limb below 2
FitsU256(v) == Len(v) < 18 \/ (Len(v) = 18 /\ v[18] < 2)

\* Result<_, MathError>: Ok(v), Err(kind); a panic of the U256 operators is
\* a third outcome
Ok(v) == [tag |-> "Ok", kind |-> "", val |-> v]

Err(k) == [tag |-> "Err", kind |-> k, val |-> <<>>]

Panic == [tag |-> "Panic", kind |-> "", val |-> <<>>]

IsOk(r) == r.tag = "Ok"

IsErr(r, k) == r.tag = "Err" /\ r.kind = k

\* v if it fits 256 bits, U256::MAX otherwise
Saturate(v) == IF FitsU256(v) THEN v ELSE MaxU256

\* U256::saturating_add
saturating_add(a, b) == Saturate(BAdd(a, b))

\* U256::saturating_sub
saturating_sub(a, b) == IF BLe(b, a) THEN BSub(a, b) ELSE <<>>

\* U256::saturating_mul
saturating_mul(a, b) == Saturate(BMul(a, b))

\* the ? operator: F applied to the value of an Ok result, the result itself
\* otherwise
Then(r, F(_)) == IF IsOk(r) THEN F(r.val) ELSE r

\* Ok(v) if v fits 256 bits, the overflow error otherwise
Checked(v) == IF FitsU256(v) THEN Ok(v) ELSE Err("Overflow")

\* U256::checked_mul with the error its callers attach
checked_mul(a, b) == Checked(BMul(a, b))

\* U256::checked_add with the error its callers attach
checked_add(a, b) == Checked(BAdd(a, b))

\* U256::checked_sub with the error kind its caller attaches
checked_sub(a, b, kind) == IF BLe(b, a) THEN Ok(BSub(a, b)) ELSE Err(kind)

\* U256::abs_diff
AbsDiff(a, b) == IF BLt(b, a) THEN BSub(a, b) ELSE BSub(b, a)

(***************************************************************************)
(* Uniswap V2 (uniswap_v2/math.rs).  A BasisPoints value is the machine    *)
(* integer its as_u32() returns.                                           *)
(***************************************************************************)
BPS_MAX == 10000

\* mutant: the fee is not taken off the input
fee_multiplier_no_fee(fee_bps) == N(10000)

fee_multiplier(fee_bps) == N(10000 - fee_bps)

\* mutant: the product in place of the quotient
v2_quotient_times(numerator, denominator) == BMul(numerator, denominator)

\* mutant: the quotient rounded up
v2_quotient_up(numerator, denominator) ==
    BDiv(BAdd(numerator, BSub(denominator, <<1>>)), denominator)

v2_quotient(numerator, denominator) == BDiv(numerator, denominator)

calculate_v2_amount_out(amount_in, reserve_in, reserve_out, fee_bps) ==
    IF amount_in = <<>> THEN Err("InvalidInput")
    ELSE IF reserve_in = <<>> \/ reserve_out = <<>> THEN Err("InvalidInput")
    ELSE Then(checked_mul(amount_in, fee_multiplier(fee_bps)),
           LAMBDA amount_in_with_fee :
         Then(checked_mul(reserve_out, amount_in_with_fee),
           LAMBDA numerator :
         Then(checked_mul(reserve_in, N(10000)),
           LAMBDA reserve_in_scaled :
         Then(checked_add(reserve_in_scaled, amount_in_with_fee),
           LAMBDA denominator :
             IF denominator = <<>> THEN Err("DivisionByZero")
             ELSE Ok(v2_quotient(numerator, denominator))))))

\* mutant: the output is not taken out of the reserve
v2_new_reserve_out_stale(reserve_out, amount_out) == Ok(reserve_out)

v2_new_reserve_out(reserve_out, amount_out) ==
    checked_sub(reserve_out, amount_out, "Underflow")

calculate_v2_post_swap_state(amount_in, reserve_in, reserve_out, fee_bps) ==
    Then(calculate_v2_amount_out(amount_in, reserve_in, reserve_out, fee_bps),
      LAMBDA amount_out :
    Then(checked_add(reserve_in, amount_in),
      LAMBDA new_reserve_in :
    Then(v2_new_reserve_out(reserve_out, amount_out),
      LAMBDA new_reserve_out :
        Ok(<<new_reserve_in, new_reserve_out, amount_out>>))))

\* flash_loan_cost: checked_mul then checked_div by 10000 (the same
\* expression in every family's sandwich-profit function)
v2_flash_loan_cost(frontrun_amount, aave_fee_bps) ==
    Then(checked_mul(frontrun_amount, N(aave_fee_bps)),
         LAMBDA p : Ok(BDiv(p, N(10000))))

\* mutant: a loss is reported as an error
v2_profit_or_underflow(backrun_output, total_cost) ==
    checked_sub(backrun_output, total_cost, "Underflow")

v2_profit_or_zero(backrun_output, total_cost) ==
    IF BLe(total_cost, backrun_output) THEN Ok(BSub(backrun_output, total_cost))
    ELSE Ok(<<>>)

\* the front-run, the victim's swap and the back-run: Ok of the back-run output
v2_backrun_output(frontrun_amount, victim_amount, reserve_in, reserve_out, fee_bps) ==
    Then(calculate_v2_post_swap_state(frontrun_amount, reserve_in, reserve_out,
                                      fee_bps),
      LAMBDA f :
    Then(calculate_v2_post_swap_state(victim_amount, f[1], f[2], fee_bps),
      LAMBDA v : calculate_v2_amount_out(f[3], v[2], v[1], fee_bps)))

calculate_v2_sandwich_profit(frontrun_amount, victim_amount, reserve_in, reserve_out, fee_bps, aave_fee_bps) ==
    Then(v2_backrun_output(frontrun_amount, victim_amount, reserve_in,
                           reserve_out, fee_bps),
      LAMBDA backrun_output :
    Then(v2_flash_loan_cost(frontrun_amount, aave_fee_bps),
      LAMBDA flash_loan_cost :
        v2_profit_or_zero(backrun_output,
                          saturating_add(frontrun_amount, flash_loan_cost))))

(***************************************************************************)
(* Uniswap V3 (uniswap_v3/math.rs): 512-bit multiply-then-divide.  The     *)
(* conversions between U256 and U512 go through big-endian byte arrays.    *)
(***************************************************************************)
\* the 8 bits of v from bit p on, read off the limbs that hold them
ByteAt(v, p) ==
    ((Limb(v, p \div 15 + 1) + Limb(v, p \div 15 + 2) * Base) \div 2^(p % 15)) % 256

\* to_big_endian into a buffer of n bytes: the low n bytes of v, the highest
\* first
to_big_endian(v, n) == [k \in 1..n |-> ByteAt(v, 8 * (n - k))]

\* the byte of weight 256^k in a big-endian array, 0 beyond its front
ByteOf(bytes, k) == IF k < Len(bytes) THEN bytes[Len(bytes) - k] ELSE 0

\* the 15 bits from bit p on of the number the array holds
LimbAt(bytes, p) ==
    ((ByteOf(bytes, p \div 8) + ByteOf(bytes, p \div 8 + 1) * 256
      + ByteOf(bytes, p \div 8 + 2) * 65536) \div 2^(p % 8)) % Base

\* from_big_endian: the number a big-endian byte array holds
from_big_endian(bytes) ==
    Norm([i \in 1..((8 * Len(bytes)) \div 15 + 1) |-> LimbAt(bytes, 15 * (i - 1))])

ZeroBytes(n) == [k \in 1..n |-> 0]

\* 32 bytes of the U256 behind 32 zero bytes
ethers_u256_to_u512(value) ==
    from_big_endian(ZeroBytes(32) \o to_big_endian(value, 32))

\* 32 bytes 0xFF behind 32 zero bytes
get_max_u256_u512 == from_big_endian(ZeroBytes(32) \o [k \in 1..32 |-> 255])

u128_to_u512(value) == ethers_u256_to_u512(value)

\* mutant: the range check is missing, the low 32 bytes are kept
u512_to_ethers_u256_truncating(value) ==
    Ok(from_big_endian(SubSeq(to_big_endian(value, 64), 33, 64)))

u512_to_ethers_u256(value) ==
    IF BLt(get_max_u256_u512, value) THEN Err("Overflow")
    ELSE Ok(from_big_endian(SubSeq(to_big_endian(value, 64), 33, 64)))

\* U512::checked_mul, U512::checked_add: Ok(v) if v fits 512 bits, which is
\* 34 limbs and a top limb below 4
CheckedU512(v) ==
    IF Len(v) < 35 \/ (Len(v) = 35 /\ v[35] < 4) THEN Ok(v) ELSE Err("Overflow")

mul_div(a, b, denominator) ==
    IF denominator = <<>> THEN Err("DivisionByZero")
    ELSE Then(CheckedU512(BMul(ethers_u256_to_u512(a), ethers_u256_to_u512(b))),
           LAMBDA product :
             u512_to_ethers_u256(BDiv(product, ethers_u256_to_u512(denominator))))

\* mutant: the adjustment is the whole denominator
rounding_adjustment_whole(denom_u512) == Ok(denom_u512)

\* denom_u512.checked_sub(1)
rounding_adjustment(denom_u512) ==
    checked_sub(denom_u512, u128_to_u512(<<1>>), "Underflow")

\* the rounded-up quotient of the product by the denominator
mul_div_round(product, denom_u512) ==
    Then(rounding_adjustment(denom_u512),
      LAMBDA adj :
    Then(CheckedU512(BAdd(product, adj)),
      LAMBDA numerator_rounded :
        u512_to_ethers_u256(BDiv(numerator_rounded, denom_u512))))

mul_div_rounding_up(a, b, denominator) ==
    IF denominator = <<>> THEN Err("DivisionByZero")
    ELSE Then(CheckedU512(BMul(ethers_u256_to_u512(a), ethers_u256_to_u512(b))),
           LAMBDA product :
             mul_div_round(product, ethers_u256_to_u512(denominator)))

(***************************************************************************)
(* Curve stable-swap (curve/math.rs).  A pool's balances are a sequence;   *)
(* the code's index k is position k + 1.                                   *)
(***************************************************************************)
\* the multiplication guarded by the division test of pow_u256's loop
pow_mul(x, y) ==
    IF x # <<>> /\ BLt(BDiv(MaxU256, x), y) THEN Err("Overflow")
    ELSE checked_mul(x, y)

RECURSIVE pow_loop(_, _, _)
pow_loop(result, base, exp) ==
    IF exp = 0 THEN Ok(result)
    ELSE Then(IF exp % 2 = 1 THEN pow_mul(result, base) ELSE Ok(result),
           LAMBDA r1 :
         Then(IF exp > 1 THEN pow_mul(base, base) ELSE Ok(base),
           LAMBDA b1 : pow_loop(r1, b1, exp \div 2)))

pow_bits_per_mult(base) ==
    IF ~BLt(base, Pow2(64)) THEN 64
    ELSE IF ~BLt(base, Pow2(32)) THEN 32
    ELSE IF ~BLt(base, Pow2(16)) THEN 16
    ELSE IF ~BLt(base, N(256)) THEN 8
    ELSE 1

pow_u256(base, exp) ==
    IF exp = 0 THEN Ok(<<1>>)
    ELSE IF exp = 1 THEN Ok(base)
    ELSE IF BLt(<<1>>, base) /\ pow_bits_per_mult(base) * exp > 256
         THEN Err("Overflow")
    ELSE pow_loop(<<1>>, base, exp)

curve_n_pow_n(n) ==
    IF n = 1 THEN Ok(N(1))
    ELSE IF n = 2 THEN Ok(N(4))
    ELSE IF n = 3 THEN Ok(N(27))
    ELSE IF n = 4 THEN Ok(N(256))
    ELSE pow_u256(N(n), n)

CURVE_MAX_ITERATIONS == 255

RECURSIVE sum_balances(_, _, _)
sum_balances(balances, k, acc) ==
    IF k > Len(balances) THEN acc
    ELSE With(saturating_add(acc, balances[k]),
              LAMBDA acc1 : sum_balances(balances, k + 1, acc1))

\* checked_div with the error its callers attach
checked_div(a, b) == IF b = <<>> THEN Err("DivisionByZero") ELSE Ok(BDiv(a, b))

\* d_p = d_p * d / (balance * n) over the balances
RECURSIVE d_p_loop(_, _, _, _, _)
d_p_loop(balances, n_u256, d, d_p, k) ==
    IF k > Len(balances) THEN Ok(d_p)
    ELSE Then(checked_mul(balances[k], n_u256),
           LAMBDA balance_times_n :
         Then(checked_mul(d_p, d),
           LAMBDA t :
         Then(checked_div(t, balance_times_n),
           LAMBDA q : d_p_loop(balances, n_u256, d, q, k + 1))))

\* numerator = (ann * sum_x + d_p * n) * d
d_numerator(ann, n_u256, sum_x, d, d_p) ==
    Then(checked_mul(ann, sum_x),
      LAMBDA ann_s :
    Then(checked_mul(d_p, n_u256),
      LAMBDA d_p_n :
    Then(checked_add(ann_s, d_p_n),
      LAMBDA numerator_inner : checked_mul(numerator_inner, d))))

\* denominator = (ann - 1) * d + (n + 1) * d_p
d_denominator(ann, n_u256, d, d_p) ==
    Then(checked_mul(saturating_sub(ann, <<1>>), d),
      LAMBDA term1 :
    Then(checked_mul(saturating_add(n_u256, <<1>>), d_p),
      LAMBDA term2 : checked_add(term1, term2)))

\* the quotient of two results
ResultDiv(numerator, denominator) ==
    Then(numerator, LAMBDA nv :
    Then(denominator, LAMBDA dv : checked_div(nv, dv)))

\* one Newton step of calculate_d: Ok of the next d, or the error
d_step(balances, ann, n_u256, sum_x, d) ==
    Then(d_p_loop(balances, n_u256, d, d, 1),
      LAMBDA d_p : ResultDiv(d_numerator(ann, n_u256, sum_x, d, d_p),
                             d_denominator(ann, n_u256, d, d_p)))

\* the loop ends with a Newton step's result nx after the value prev: nx is
\* an error, or within 1 of prev
Converged(nx, prev) == ~IsOk(nx) \/ BLe(AbsDiff(nx.val, prev), <<1>>)

RECURSIVE d_loop(_, _, _, _, _, _)
d_loop(balances, ann, n_u256, sum_x, d, iteration) ==
    IF iteration = CURVE_MAX_ITERATIONS THEN Ok(d)
    ELSE With(d_step(balances, ann, n_u256, sum_x, d),
           LAMBDA nx : IF Converged(nx, d) THEN nx
                       ELSE d_loop(balances, ann, n_u256, sum_x, nx.val,
                                   iteration + 1))

\* ann = a * n^n
curve_ann(a, n) == Then(curve_n_pow_n(n), LAMBDA n_pow_n : checked_mul(a, n_pow_n))

d_from_sum(balances, a, n, sum_x) ==
    IF sum_x = <<>> THEN Ok(<<>>)
    ELSE IF \E k \in 1..n : balances[k] = <<>> THEN Ok(<<>>)
    ELSE Then(curve_ann(a, n),
           LAMBDA ann : d_loop(balances, ann, N(n), sum_x, sum_x, 0))

calculate_d(balances, a, n) ==
    IF Len(balances) # n THEN Err("InvalidInput")
    ELSE IF n = 0 THEN Err("InvalidInput")
    ELSE d_from_sum(balances, a, n, sum_balances(balances, 1, <<>>))

\* s and c over the balances other than j: Ok(<<s, c>>) or the error
RECURSIVE y_sum_loop(_, _, _, _, _, _)
y_sum_loop(xp, j, n_u256, d, k, sc) ==
    IF k >= Len(xp) THEN Ok(sc)
    ELSE IF k = j THEN y_sum_loop(xp, j, n_u256, d, k + 1, sc)
    ELSE IF xp[k + 1] = <<>> THEN Err("DivisionByZero")
    ELSE Then(checked_add(sc[1], xp[k + 1]),
           LAMBDA s1 :
         Then(checked_mul(xp[k + 1], n_u256),
           LAMBDA xp_k_times_n :
         Then(checked_mul(sc[2], d),
           LAMBDA cd : y_sum_loop(xp, j, n_u256, d, k + 1,
                                  <<s1, BDiv(cd, xp_k_times_n)>>))))

\* numerator / (denominator_before_d - d)
y_quotient(numerator, denominator_before_d, d) ==
    IF BLt(denominator_before_d, d) THEN Err("InvalidInput")
    ELSE IF denominator_before_d = d THEN Err("DivisionByZero")
    ELSE Ok(BDiv(numerator, BSub(denominator_before_d, d)))

\* one Newton step of calculate_y: Ok of the next y, or the error
y_step(y, c, b_intermediate, d) ==
    Then(checked_mul(y, y),
      LAMBDA y_squared :
    Then(checked_add(y_squared, c),
      LAMBDA numerator :
    Then(checked_mul(y, N(2)),
      LAMBDA two_y :
    Then(checked_add(two_y, b_intermediate),
      LAMBDA denominator_before_d :
        y_quotient(numerator, denominator_before_d, d)))))

RECURSIVE y_loop(_, _, _, _, _)
y_loop(y, c, b_intermediate, d, iteration) ==
    IF iteration = CURVE_MAX_ITERATIONS THEN Ok(y)
    ELSE With(y_step(y, c, b_intermediate, d),
           LAMBDA nx : IF Converged(nx, y) THEN nx
                       ELSE y_loop(nx.val, c, b_intermediate, d, iteration + 1))

\* c = c * d / (ann * n) and b_intermediate = s + d / ann: Ok(<<c, b_intermediate>>)
y_coefficients(s, c, ann, n_u256, d) ==
    Then(checked_mul(c, d),
      LAMBDA cd :
    Then(checked_mul(ann, n_u256),
      LAMBDA ann_n :
    Then(checked_div(cd, ann_n),
      LAMBDA c1 :
    Then(checked_add(s, BDiv(d, ann)),
      LAMBDA b_intermediate : Ok(<<c1, b_intermediate>>)))))

\* what calculate_y computes before its Newton loop: Ok(<<c, b_intermediate>>)
y_newton_inputs(j, xp, a, d) ==
    Then(curve_ann(a, Len(xp)),
      LAMBDA ann :
    Then(y_sum_loop(xp, j, N(Len(xp)), d, 0, <<<<>>, d>>),
      LAMBDA sc : y_coefficients(sc[1], sc[2], ann, N(Len(xp)), d)))

calculate_y(i, j, x, xp, a, d) ==
    IF i = j THEN Err("InvalidInput")
    ELSE IF j >= Len(xp) THEN Err("InvalidInput")
    ELSE IF Len(xp) = 0 THEN Err("InvalidInput")
    ELSE Then(y_newton_inputs(j, xp, a, d),
              LAMBDA cb : y_loop(d, cb[1], cb[2], d, 0))

\* xp with the balance at index k replaced
SetBalance(xp, k, v) == [xp EXCEPT ![k + 1] = v]

calculate_dy(i, j, dx, xp, a) ==
    IF i >= Len(xp) \/ j >= Len(xp) THEN Err("InvalidInput")
    ELSE IF i = j THEN Err("InvalidInput")
    ELSE Then(calculate_d(xp, a, Len(xp)),
           LAMBDA d :
         Then(checked_add(xp[i + 1], dx),
           LAMBDA xi :
         Then(calculate_y(i, j, dx, SetBalance(xp, i, xi), a, d),
           LAMBDA y : Ok(saturating_sub(xp[j + 1], y)))))

\* raw_output * curve_fee / 10000, zero when the product overflows
curve_fee_amount(raw_output, curve_fee) ==
    With(BMul(raw_output, curve_fee),
         LAMBDA p : IF FitsU256(p) THEN BDiv(p, N(10000)) ELSE <<>>)

\* balances after amount_in enters at token_in and amount_out leaves at token_out
curve_balances_after(balances, token_in, token_out, amount_in, amount_out) ==
    Then(checked_add(balances[token_in + 1], amount_in),
      LAMBDA bin :
    Then(checked_sub(balances[token_out + 1], amount_out, "Underflow"),
      LAMBDA bout :
        Ok(SetBalance(SetBalance(balances, token_in, bin), token_out, bout))))

\* backrun_output.checked_sub(frontrun_amount).and_then(checked_sub(flash_loan_cost))
curve_profit(backrun_output, frontrun_amount, flash_loan_cost) ==
    Then(checked_sub(backrun_output, frontrun_amount, "Underflow"),
         LAMBDA t : checked_sub(t, flash_loan_cost, "Underflow"))

\* a swap of amount_in from token_in to token_out with the output given:
\* Ok of <<the balances after it, the output>>
curve_apply(balances, token_in, token_out, amount_in, amount_out) ==
    Then(curve_balances_after(balances, token_in, token_out, amount_in, amount_out),
         LAMBDA after : Ok(<<after, amount_out>>))

\* the front-run: its output is the raw output less the pool's fee
curve_frontrun(frontrun_amount, balances, amplification, fee_bps) ==
    Then(calculate_dy(0, 1, frontrun_amount, balances, amplification),
      LAMBDA raw :
        curve_apply(balances, 0, 1, frontrun_amount,
                    saturating_sub(raw, curve_fee_amount(raw, N(fee_bps)))))

\* the victim's swap: its output is the raw output
curve_victim(victim_amount, balances, amplification) ==
    Then(calculate_dy(0, 1, victim_amount, balances, amplification),
      LAMBDA victim_output :
        curve_apply(balances, 0, 1, victim_amount, victim_output))

\* the front-run, the victim's swap and the back-run: Ok of the back-run output
curve_backrun_output(frontrun_amount, victim_amount, balances, amplification, fee_bps) ==
    Then(curve_frontrun(frontrun_amount, balances, amplification, fee_bps),
      LAMBDA f :
    Then(curve_victim(victim_amount, f[1], amplification),
      LAMBDA v : calculate_dy(1, 0, f[2], v[1], amplification)))

calculate_curve_sandwich_profit(frontrun_amount, victim_amount, balances, amplification, fee_bps, aave_fee_bps) ==
    IF Len(balances) < 2 THEN Err("InvalidInput")
    ELSE Then(curve_backrun_output(frontrun_amount, victim_amount, balances,
                                   amplification, fee_bps),
           LAMBDA k :
         Then(v2_flash_loan_cost(frontrun_amount, aave_fee_bps),
           LAMBDA c : curve_profit(k, frontrun_amount, c)))

(***************************************************************************)
(* State: the function that was called, its arguments, what it returned,   *)
(* and the local variables of a loop that is being stepped through.        *)
(***************************************************************************)
VARIABLES call, args, result, loop

vars == <<call, args, result, loop>>

NoResult == [tag |-> "None", kind |-> "", val |-> <<>>]

NoLoop == [it |-> 0]

\* number of small and of 10^18-scaled sample amounts
MaxUnits == 3

SmallVals == {N(k) : k \in 0..MaxUnits}

EtherVals == {MulSmall(Pow10(18), k) : k \in 1..MaxUnits}

\* values at which the products of calculate_v2_amount_out leave 256 bits
WideVals == {Pow2(200), Pow2(242), MaxU256}

V2Amounts == SmallVals \cup EtherVals \cup WideVals

V2Reserves == {N(0), N(1)} \cup {MulSmall(v, 10) : v \in EtherVals} \cup WideVals

V2Victims == {N(0), MulSmall(Pow10(18), MaxUnits)}

V2Fees == {0, 30, BPS_MAX}

AaveFees == {0, 9}

V2Args == [amount_in : V2Amounts, victim_amount : V2Victims,
           reserve_in : V2Reserves, reserve_out : V2Reserves,
           fee_bps : V2Fees, aave_fee_bps : AaveFees]

InitV2 == /\ call = "none"
          /\ args \in V2Args
          /\ result = NoResult
          /\ loop = NoLoop

V2AmountOut ==
    /\ call = "none"
    /\ call' = "calculate_v2_amount_out"
    /\ result' = calculate_v2_amount_out(args.amount_in, args.reserve_in,
                                         args.reserve_out, args.fee_bps)
    /\ UNCHANGED <<args, loop>>

V2PostSwapState ==
    /\ call = "none"
    /\ call' = "calculate_v2_post_swap_state"
    /\ result' = calculate_v2_post_swap_state(args.amount_in, args.reserve_in,
                                              args.reserve_out, args.fee_bps)
    /\ UNCHANGED <<args, loop>>

V2SandwichProfit ==
    /\ call = "none"
    /\ call' = "calculate_v2_sandwich_profit"
    /\ result' = calculate_v2_sandwich_profit(args.amount_in, args.victim_amount,
                     args.reserve_in, args.reserve_out, args.fee_bps,
                     args.aave_fee_bps)
    /\ UNCHANGED <<args, loop>>

NextV2 == V2AmountOut \/ V2PostSwapState \/ V2SandwichProfit

SpecV2 == InitV2 /\ [][NextV2]_vars

(***************************************************************************)
(* Uniswap V2: properties.  The reference values are computed in           *)
(* unbounded arithmetic, from the formula and not from the code's steps.   *)
(***************************************************************************)
V2WithFee(a, fee) == BMul(a, N(BPS_MAX - fee))

V2Denominator(a, ri, fee) == BAdd(BMul(ri, N(BPS_MAX)), V2WithFee(a, fee))

\* floor(ro * a * (10000 - fee) / (ri * 10000 + a * (10000 - fee)))
V2Reference(a, ri, ro, fee) ==
    BDiv(BMul(BMul(ro, a), N(BPS_MAX - fee)), V2Denominator(a, ri, fee))

\* no intermediate product or sum exceeds 256 bits
V2Within256(a, ri, ro, fee) ==
    /\ BLt(V2WithFee(a, fee), Pow2(256))
    /\ BLt(BMul(ro, V2WithFee(a, fee)), Pow2(256))
    /\ BLt(BMul(ri, N(BPS_MAX)), Pow2(256))
    /\ BLt(V2Denominator(a, ri, fee), Pow2(256))

V2Positive(a, ri, ro) == a # <<>> /\ ri # <<>> /\ ro # <<>>

\* C1: for positive amount and reserves and a fee in [0, 10000] with no
\* intermediate beyond 256 bits, calculate_v2_amount_out returns exactly
\* floor(R_out * a * (10000 - fee) / (R_in * 10000 + a * (10000 - fee))).
C1_V2AmountOutIsFloor ==
    (/\ call = "calculate_v2_amount_out"
     /\ V2Positive(args.amount_in, args.reserve_in, args.reserve_out)
     /\ V2Within256(args.amount_in, args.reserve_in, args.reserve_out,
                    args.fee_bps))
    => result = Ok(V2Reference(args.amount_in, args.reserve_in,
                               args.reserve_out, args.fee_bps))

\* a swap with a fee strictly between 0 and 100% whose quotient is positive
C1_Witness ==
    /\ call = "calculate_v2_amount_out"
    /\ args.fee_bps = 30
    /\ V2Within256(args.amount_in, args.reserve_in, args.reserve_out,
                   args.fee_bps)
    /\ IsOk(result)
    /\ BLt(Pow10(17), result.val)

\* C2: when calculate_v2_post_swap_state returns Ok((new_in, new_out,
\* amount_out)), amount_out < reserve_out, new_in = reserve_in + amount_in
\* and new_out = reserve_out - amount_out, which is positive.
C2_V2PostSwapState ==
    (call = "calculate_v2_post_swap_state" /\ IsOk(result))
    => /\ BLt(result.val[3], args.reserve_out)
       /\ result.val[1] = BAdd(args.reserve_in, args.amount_in)
       /\ BAdd(result.val[2], result.val[3]) = args.reserve_out
       /\ result.val[2] # <<>>

\* a successful swap that takes something out of the pool
C2_Witness ==
    /\ call = "calculate_v2_post_swap_state"
    /\ IsOk(result)
    /\ result.val[3] # <<>>

\* the output of a swap: <<>> when the code's conditions for it fail, else
\* <<the reference output>>
V2RefOut(a, ri, ro, fee) ==
    IF V2Positive(a, ri, ro) /\ V2Within256(a, ri, ro, fee)
    THEN <<V2Reference(a, ri, ro, fee)>>
    ELSE <<>>

\* the state after a swap with output o: <<>> when the swap fails, else
\* <<new_in, new_out, amount_out>>
V2RefState(a, ri, ro, o) ==
    IF o = <<>> \/ ~BLt(BAdd(ri, a), Pow2(256)) THEN <<>>
    ELSE <<BAdd(ri, a), BSub(ro, o[1]), o[1]>>

V2RefSwap(a, ri, ro, fee) == V2RefState(a, ri, ro, V2RefOut(a, ri, ro, fee))

\* the swap of s.amount_out back through the pool in the state t
V2RefBack(s, t, fee) ==
    IF s = <<>> \/ t = <<>> THEN <<>> ELSE V2RefOut(s[3], t[2], t[1], fee)

\* the victim's swap after the swap s
V2RefVictim(v, s, fee) ==
    IF s = <<>> THEN <<>> ELSE V2RefSwap(v, s[1], s[2], fee)

\* a + floor(a * phi / 10000): <<>> when the product leaves 256 bits
V2RefCost(a, phi) ==
    IF BLt(BMul(a, N(phi)), Pow2(256))
    THEN <<BAdd(a, BDiv(BMul(a, N(phi)), N(BPS_MAX)))>>
    ELSE <<>>

\* max(0, back - cost), <<>> when either failed
V2RefNet(back, cost) ==
    IF back = <<>> \/ cost = <<>> THEN <<>>
    ELSE IF BLe(cost[1], back[1]) THEN <<BSub(back[1], cost[1])>>
    ELSE << <<>> >>

V2RefAfterFrontrun(s1, v, fee, cost) ==
    V2RefNet(V2RefBack(s1, V2RefVictim(v, s1, fee), fee), cost)

\* what the sandwich is worth: <<>> when a swap or the fee product fails,
\* else <<max(0, back - a - floor(a * phi / 10000))>>
V2RefProfit(a, v, ri, ro, fee, phi) ==
    V2RefAfterFrontrun(V2RefSwap(a, ri, ro, fee), v, fee, V2RefCost(a, phi))

\* the result r is the reference p
MatchesRef(r, p) == IF p = <<>> THEN r.tag = "Err" ELSE r = Ok(p[1])

\* C3: calculate_v2_sandwich_profit returns max(0, back - a - floor(a*phi/10000))
\* for the front-run, victim and reverse back-run swaps, and returns an error
\* only when one of the three swaps or the fee product fails.
C3_V2SandwichProfit ==
    call = "calculate_v2_sandwich_profit"
    => MatchesRef(result, V2RefProfit(args.amount_in, args.victim_amount,
                      args.reserve_in, args.reserve_out, args.fee_bps,
                      args.aave_fee_bps))

\* a sandwich that makes a profit
C3_Witness ==
    /\ call = "calculate_v2_sandwich_profit"
    /\ IsOk(result)
    /\ result.val # <<>>

\* the error classes of calculate_v2_amount_out for a result r
V2ErrorClasses(r, pos, fit) ==
    /\ ~pos => IsErr(r, "InvalidInput")
    /\ (pos /\ ~fit) => IsErr(r, "Overflow")
    /\ IsOk(r) => (pos /\ fit)

\* C10: calculate_v2_amount_out returns InvalidInput for a zero amount or a
\* zero reserve, Overflow whenever one of its three products or the
\* denominator sum exceeds 256 bits, and never Ok from a wrapped intermediate.
C10_V2AmountOutErrors ==
    call = "calculate_v2_amount_out"
    => V2ErrorClasses(result,
           V2Positive(args.amount_in, args.reserve_in, args.reserve_out),
           V2Within256(args.amount_in, args.reserve_in, args.reserve_out,
                       args.fee_bps))

\* the three products fit and only the denominator sum leaves 256 bits
C10_Witness ==
    /\ call = "calculate_v2_amount_out"
    /\ V2Positive(args.amount_in, args.reserve_in, args.reserve_out)
    /\ BLt(BMul(args.reserve_out, V2WithFee(args.amount_in, args.fee_bps)),
           Pow2(256))
    /\ BLt(BMul(args.reserve_in, N(BPS_MAX)), Pow2(256))
    /\ ~BLt(V2Denominator(args.amount_in, args.reserve_in, args.fee_bps),
            Pow2(256))
    /\ IsErr(result, "Overflow")

(***************************************************************************)
(* mul_div and mul_div_rounding_up on sampled 256-bit operands.            *)
(***************************************************************************)
MulDivOperands == SmallVals \cup EtherVals \cup {Pow2(128), Pow2(200), MaxU256}

MulDivDenominators ==
    SmallVals \cup {N(7), Pow10(18), Pow2(128), Pow2(255), MaxU256}

MulDivArgs == [a : MulDivOperands, b : MulDivOperands, d : MulDivDenominators]

InitMulDiv == /\ call = "none"
              /\ args \in MulDivArgs
              /\ result = NoResult
              /\ loop = NoLoop

MulDiv ==
    /\ call = "none"
    /\ call' = "mul_div"
    /\ result' = mul_div(args.a, args.b, args.d)
    /\ UNCHANGED <<args, loop>>

MulDivRoundingUp ==
    /\ call = "none"
    /\ call' = "mul_div_rounding_up"
    /\ result' = mul_div_rounding_up(args.a, args.b, args.d)
    /\ UNCHANGED <<args, loop>>

NextMulDiv == MulDiv \/ MulDivRoundingUp

SpecMulDiv == InitMulDiv /\ [][NextMulDiv]_vars

\* C6: mul_div(a, b, d) returns DivisionByZero when d = 0, Overflow when
\* floor(a*b/d) exceeds 2^256 - 1, and otherwise exactly floor(a*b/d) of the
\* untruncated product a*b.
C6_MulDivExact ==
    call = "mul_div"
    => IF args.d = <<>> THEN IsErr(result, "DivisionByZero")
       ELSE LET qr == BDivMod(BMul(args.a, args.b), args.d)
            IN IF ~BLt(qr[1], Pow2(256)) THEN IsErr(result, "Overflow")
               ELSE /\ IsOk(result)
                    /\ result.val = qr[1]
                    /\ BAdd(BMul(result.val, args.d), qr[2]) = BMul(args.a, args.b)
                    /\ BLt(qr[2], args.d)

\* a product of 2^256 or more whose quotient fits in 256 bits
C6_Witness ==
    /\ call = "mul_div"
    /\ ~BLt(BMul(args.a, args.b), Pow2(256))
    /\ IsOk(result)
    /\ result.val # <<>>

\* C7: when both succeed, mul_div_rounding_up(a, b, d) >= mul_div(a, b, d), and
\* they differ, by exactly 1, if and only if (a*b) mod d # 0.
C7_RoundingUpVsMulDiv ==
    LET down == mul_div(args.a, args.b, args.d)
    IN (call = "mul_div_rounding_up" /\ args.d # <<>> /\ IsOk(result) /\ IsOk(down))
       => IF BMod(BMul(args.a, args.b), args.d) # <<>>
          THEN result.val = BAdd(down.val, <<1>>)
          ELSE result.val = down.val

\* a division that leaves a remainder, rounded up
C7_Witness ==
    /\ call = "mul_div_rounding_up"
    /\ args.d # <<>>
    /\ IsOk(result)
    /\ IsOk(mul_div(args.a, args.b, args.d))
    /\ BMod(BMul(args.a, args.b), args.d) # <<>>
    /\ BLt(Pow2(128), result.val)

(***************************************************************************)
(* Curve: exchanges and sandwiches on sampled two-coin pools.              *)
(***************************************************************************)
CurveSmallBalances == {N(20000), N(721694), N(1244310)}

CurveSmallAmounts == {N(0), N(1000), N(115740)}

CurveAmps == {N(1), N(100)}

\* <<i, j>>: both directions, the same coin twice, a coin the pool lacks
CurveIndexPairs == {<<0, 1>>, <<1, 0>>, <<0, 0>>, <<0, 2>>}

CurveSmallCases ==
    [ij : CurveIndexPairs, dx : CurveSmallAmounts, victim_amount : {N(50000)},
     xp : CurveSmallBalances \X CurveSmallBalances, a : CurveAmps,
     fee_bps : {4}, aave_fee_bps : {9}]

CurveEtherCases ==
    [ij : CurveIndexPairs, dx : {MulSmall(Pow10(17), k) : k \in 1..MaxUnits},
     victim_amount : {Pow10(18)},
     xp : {<<MulSmall(Pow10(19), k), Pow10(19)>> : k \in 1..MaxUnits},
     a : CurveAmps, fee_bps : {4}, aave_fee_bps : {9}]

CurveArgs == CurveSmallCases \cup CurveEtherCases

InitCurve == /\ call = "none"
             /\ args \in CurveArgs
             /\ result = NoResult
             /\ loop = NoLoop

\* calculate_d takes the pool only: it is called once per pool
CurveCalculateD ==
    /\ call = "none"
    /\ args.ij = <<0, 1>>
    /\ call' = "calculate_d"
    /\ result' = calculate_d(args.xp, args.a, Len(args.xp))
    /\ UNCHANGED <<args, loop>>

CurveCalculateDy ==
    /\ call = "none"
    /\ call' = "calculate_dy"
    /\ result' = calculate_dy(args.ij[1], args.ij[2], args.dx, args.xp, args.a)
    /\ UNCHANGED <<args, loop>>

\* the sandwich trades coin 0 for coin 1 and back
CurveSandwichProfit ==
    /\ call = "none"
    /\ args.ij = <<0, 1>>
    /\ call' = "calculate_curve_sandwich_profit"
    /\ result' = calculate_curve_sandwich_profit(args.dx, args.victim_amount,
                     args.xp, args.a, args.fee_bps, args.aave_fee_bps)
    /\ UNCHANGED <<args, loop>>

NextCurve == CurveCalculateD \/ CurveCalculateDy \/ CurveSandwichProfit

SpecCurve == InitCurve /\ [][NextCurve]_vars

\* the balances after the exchange the state describes
CurvePostSwap ==
    SetBalance(SetBalance(args.xp, args.ij[1],
                          BAdd(args.xp[args.ij[1] + 1], args.dx)),
               args.ij[2], BSub(args.xp[args.ij[2] + 1], result.val))

\* two results that are both Ok and differ by at most 1
OkWithinOne(d0, d1) ==
    IsOk(d0) /\ IsOk(d1) /\ BLe(AbsDiff(d0.val, d1.val), <<1>>)

\* C8: after calculate_dy returns Ok(dy) on a pool with all balances > 0,
\* calculate_d of the post-swap balances (xp[i] + dx, xp[j] - dy) differs from
\* calculate_d of xp by at most 1.
C8_CurveDWithinOne ==
    (call = "calculate_dy" /\ IsOk(result)
        /\ \A k \in 1..Len(args.xp) : args.xp[k] # <<>>)
    => OkWithinOne(calculate_d(args.xp, args.a, Len(args.xp)),
                   calculate_d(CurvePostSwap, args.a, Len(args.xp)))

(***************************************************************************)
(* The sandwich-profit functions side by side.                             *)
(***************************************************************************)
InitSandwich == InitV2 \/ InitCurve

\* each function is called on arguments of its own pool family
NextSandwich == \/ ("reserve_in" \in DOMAIN args /\ V2SandwichProfit)
                \/ ("xp" \in DOMAIN args /\ CurveSandwichProfit)

SpecSandwich == InitSandwich /\ [][NextSandwich]_vars

\* the back-run output of the sandwich the state describes
SandwichBackrun ==
    IF call = "calculate_v2_sandwich_profit"
    THEN v2_backrun_output(args.amount_in, args.victim_amount, args.reserve_in,
                           args.reserve_out, args.fee_bps)
    ELSE curve_backrun_output(args.dx, args.victim_amount, args.xp, args.a,
                              args.fee_bps)

SandwichFrontrun ==
    IF call = "calculate_v2_sandwich_profit" THEN args.amount_in ELSE args.dx

\* front-run amount plus floor(front-run amount * phi / 10000)
SandwichCost ==
    BAdd(SandwichFrontrun,
         BDiv(BMul(SandwichFrontrun, N(args.aave_fee_bps)), N(BPS_MAX)))

\* the back-run succeeded and its output is below the cost
IsLoss(backrun, cost) == IsOk(backrun) /\ BLt(backrun.val, cost)

\* C4: whenever the three swaps of a sandwich-profit function succeed and the
\* back-run output is smaller than the front-run amount plus the flash-loan
\* fee, the function returns Ok(0) and not an error.
C4_SandwichLossIsOkZero ==
    (/\ call \in {"calculate_v2_sandwich_profit", "calculate_curve_sandwich_profit"}
     /\ IsLoss(SandwichBackrun, SandwichCost))
    => result = Ok(<<>>)

(***************************************************************************)
(* The Newton loops of calculate_d and calculate_y, one iteration a step.  *)
(* loop.it counts the iterations run, loop.cur is d (or y) and loop.prev   *)
(* is prev_d (or prev_y).                                                  *)
(***************************************************************************)
NewtonPools ==
    {<<N(992), N(1)>>, <<N(721694), N(20000)>>, <<N(1244310), N(721694)>>,
     <<Pow10(19), MulSmall(Pow10(19), 2)>>, <<N(0), N(5)>>}

\* values of d handed to calculate_y
NewtonInvariants == {N(1000), N(1941848), MulSmall(Pow10(19), 3)}

NewtonArgs ==
    [fn : {"calculate_d"}, xp : NewtonPools, a : CurveAmps, j : {0}, d : {N(0)}]
    \cup [fn : {"calculate_y"}, xp : NewtonPools, a : CurveAmps, j : {0, 1},
          d : NewtonInvariants]

InitNewton == /\ call = "none"
              /\ args \in NewtonArgs
              /\ result = NoResult
              /\ loop = NoLoop

\* calculate_d reaches its loop: no early return and ann fits
d_loop_entered(balances, a) ==
    /\ sum_balances(balances, 1, <<>>) # <<>>
    /\ \A k \in 1..Len(balances) : balances[k] # <<>>
    /\ IsOk(curve_ann(a, Len(balances)))

\* the function of the state reaches its loop
NewtonEntered ==
    IF args.fn = "calculate_d" THEN d_loop_entered(args.xp, args.a)
    ELSE IsOk(y_newton_inputs(args.j, args.xp, args.a, args.d))

\* the call without its loop: what it returns before the loop
NewtonEarly ==
    IF args.fn = "calculate_d" THEN calculate_d(args.xp, args.a, Len(args.xp))
    ELSE calculate_y(1 - args.j, args.j, N(0), args.xp, args.a, args.d)

\* the value the loop starts from: sum_x for d, d for y
NewtonFirst ==
    IF args.fn = "calculate_d" THEN sum_balances(args.xp, 1, <<>>) ELSE args.d

\* one iteration from the value cur
NewtonIterate(cur) ==
    IF args.fn = "calculate_d"
    THEN d_step(args.xp, curve_ann(args.a, Len(args.xp)).val, N(Len(args.xp)),
                sum_balances(args.xp, 1, <<>>), cur)
    ELSE With(y_newton_inputs(args.j, args.xp, args.a, args.d).val,
              LAMBDA cb : y_step(cur, cb[1], cb[2], args.d))

\* the call up to its loop
NewtonCall ==
    /\ call = "none"
    /\ call' = args.fn
    /\ IF NewtonEntered
       THEN /\ loop' = [it |-> 0, cur |-> NewtonFirst, prev |-> NewtonFirst]
            /\ result' = NoResult
       ELSE /\ loop' = NoLoop
            /\ result' = NewtonEarly
    /\ UNCHANGED args

\* the state after an iteration whose result is nx
NewtonAfter(nx) ==
    /\ loop' = [it |-> loop.it + 1,
                cur |-> IF IsOk(nx) THEN nx.val ELSE loop.cur,
                prev |-> loop.cur]
    /\ result' = IF Converged(nx, loop.cur) THEN nx ELSE NoResult

\* one iteration of the loop: an error and a converged value are returned
NewtonStep ==
    /\ call # "none" /\ loop # NoLoop /\ result = NoResult
    /\ loop.it < CURVE_MAX_ITERATIONS
    /\ NewtonAfter(NewtonIterate(loop.cur))
    /\ UNCHANGED <<call, args>>

\* the code after the loop: Ok(d), Ok(y)
NewtonExhausted ==
    /\ call # "none" /\ loop # NoLoop /\ result = NoResult
    /\ loop.it = CURVE_MAX_ITERATIONS
    /\ result' = Ok(loop.cur)
    /\ UNCHANGED <<call, args, loop>>

NextNewton == NewtonCall \/ NewtonStep \/ NewtonExhausted

SpecNewton == InitNewton /\ [][NextNewton]_vars

\* a result that is an error of none of the four arithmetic kinds
IsNonConvergence(r) ==
    r.tag = "Err" /\ r.kind \notin {"Overflow", "Underflow", "DivisionByZero", "InvalidInput"}

\* C13: calculate_d and calculate_y run at most 255 iterations, return Ok
\* only when the last two iterates differ by at most 1, and return an error
\* that is not Overflow, Underflow, DivisionByZero or InvalidInput when 255
\* iterations have run without two iterates that close.
C13_NewtonCapIsError ==
    (call # "none" /\ loop # NoLoop /\ result # NoResult)
    => /\ loop.it <= CURVE_MAX_ITERATIONS
       /\ IsOk(result) => BLe(AbsDiff(loop.cur, loop.prev), <<1>>)
       /\ (loop.it = CURVE_MAX_ITERATIONS
             /\ ~BLe(AbsDiff(loop.cur, loop.prev), <<1>>))
          => IsNonConvergence(result)

(***************************************************************************)
(* Uniswap V3: a swap inside one tick range (uniswap_v3/math.rs).          *)
(* A direction is "Token0ToToken1" or "Token1ToToken0".                    *)
(***************************************************************************)
MIN_TICK == -887272

MAX_TICK == 887272

MIN_SQRT_RATIO == Dec(<<42, 9512, 8739>>)

get_max_sqrt_ratio ==
    Dec(<<1, 4614, 4670, 3485, 2101, 328, 7273, 522, 398, 8822, 3787, 2397, 342>>)

\* 1u128 << 96
Q96 == Pow2(96)

\* value >> k
BShr(value, k) ==
    Norm([i \in 1..(Len(value) - k \div 15) |->
            value[i + k \div 15] \div 2^(k % 15)
            + (Limb(value, i + k \div 15 + 1) % 2^(k % 15)) * 2^(15 - (k % 15))])

\* value & ((1 << k) - 1)
BLowBits(value, k) ==
    IF Len(value) <= k \div 15 THEN value
    ELSE Norm([i \in 1..(k \div 15 + 1) |->
                 IF i <= k \div 15 THEN value[i] ELSE value[i] % 2^(k % 15)])

\* amount_in * (10000 - fee_bps) / 10000
v3_amount_in_after_fee(amount_in, fee_bps) ==
    Then(checked_mul(amount_in, N(10000 - fee_bps)),
         LAMBDA v : Ok(BDiv(v, N(10000))))

\* the arguments every V3 swap function rejects
v3_invalid_input(amount_in, sqrt_price_x96, liquidity) ==
    \/ amount_in = <<>>
    \/ sqrt_price_x96 = <<>> \/ BLt(sqrt_price_x96, MIN_SQRT_RATIO)
    \/ liquidity = <<>>

\* zeroForOne: numerator * sqrt_price / (numerator + amount * sqrt_price)
\* with numerator = liquidity * 2^96
v3_price_zero_for_one(amount_in_after_fee, sqrt_price_x96, liquidity) ==
    Then(checked_mul(liquidity, Q96),
      LAMBDA numerator :
    Then(checked_mul(amount_in_after_fee, sqrt_price_x96),
      LAMBDA product :
    Then(checked_add(numerator, product),
      LAMBDA denominator : mul_div(numerator, sqrt_price_x96, denominator))))

\* oneForZero: sqrt_price + amount * 2^96 / liquidity
v3_price_one_for_zero(amount_in_after_fee, sqrt_price_x96, liquidity) ==
    Then(mul_div(amount_in_after_fee, Q96, liquidity),
         LAMBDA sqrt_price_delta : checked_add(sqrt_price_x96, sqrt_price_delta))

\* the sqrt price after the swap
v3_new_sqrt_price(amount_in_after_fee, sqrt_price_x96, liquidity, direction) ==
    IF direction = "Token0ToToken1"
    THEN v3_price_zero_for_one(amount_in_after_fee, sqrt_price_x96, liquidity)
    ELSE v3_price_one_for_zero(amount_in_after_fee, sqrt_price_x96, liquidity)

\* zeroForOne: liquidity * (sqrt_price - new_sqrt_price) / 2^96
v3_out_zero_for_one(new_sqrt_price, sqrt_price_x96, liquidity) ==
    IF ~BLt(new_sqrt_price, sqrt_price_x96) THEN Err("InvalidInput")
    ELSE mul_div(liquidity, BSub(sqrt_price_x96, new_sqrt_price), Q96)

\* oneForZero: (liquidity * (new_sqrt_price - sqrt_price) / sqrt_price) * 2^96
\* / new_sqrt_price
v3_out_one_for_zero(new_sqrt_price, sqrt_price_x96, liquidity) ==
    Then(mul_div(liquidity, BSub(new_sqrt_price, sqrt_price_x96), sqrt_price_x96),
         LAMBDA numerator : mul_div(numerator, Q96, new_sqrt_price))

v3_amount_out_from(new_sqrt_price, sqrt_price_x96, liquidity, direction) ==
    IF direction = "Token0ToToken1"
    THEN v3_out_zero_for_one(new_sqrt_price, sqrt_price_x96, liquidity)
    ELSE v3_out_one_for_zero(new_sqrt_price, sqrt_price_x96, liquidity)

\* the swap of a non-zero amount after the fee
v3_swap_output(amount_in_after_fee, sqrt_price_x96, liquidity, direction) ==
    Then(v3_new_sqrt_price(amount_in_after_fee, sqrt_price_x96, liquidity, direction),
         LAMBDA new_sqrt_price :
           v3_amount_out_from(new_sqrt_price, sqrt_price_x96, liquidity, direction))

calculate_v3_amount_out(amount_in, sqrt_price_x96, liquidity, fee_bps, direction) ==
    IF v3_invalid_input(amount_in, sqrt_price_x96, liquidity) THEN Err("InvalidInput")
    ELSE Then(v3_amount_in_after_fee(amount_in, fee_bps),
           LAMBDA amount_in_after_fee :
             IF amount_in_after_fee = <<>> THEN Ok(<<>>)
             ELSE v3_swap_output(amount_in_after_fee, sqrt_price_x96, liquidity,
                                 direction))

(***************************************************************************)
(* A swap function called twice, on arguments that differ in one place:    *)
(* result is the pair of what the two calls returned.                      *)
(***************************************************************************)
OrderFees == {0, 30, 100, 9999, BPS_MAX}

OrderV2Amounts == {N(1), N(1000), Pow10(18)}

OrderV2Reserves == {N(1000), Pow10(19), MulSmall(Pow10(19), 2)}

OrderV2Args ==
    [amount_in : OrderV2Amounts, reserve_in : OrderV2Reserves,
     reserve_out : OrderV2Reserves, fee_bps : OrderFees,
     fee_bps2 : OrderFees, reserve2 : OrderV2Reserves]

V3Directions == {"Token0ToToken1", "Token1ToToken0"}

OrderV3Amounts == {N(71), Pow10(15), Pow10(18)}

OrderV3Prices == {BAdd(MIN_SQRT_RATIO, N(64)), Q96, MulSmall(Q96, 2)}

OrderV3Liquidity == {N(14), Pow10(18), Pow10(21)}

OrderV3Args ==
    [amount_in : OrderV3Amounts, sqrt_price_x96 : OrderV3Prices,
     liquidity : OrderV3Liquidity, fee_bps : OrderFees, fee_bps2 : OrderFees,
     direction : V3Directions]

InitOrder == /\ call = "none"
             /\ args \in OrderV2Args \cup OrderV3Args
             /\ result = NoResult
             /\ loop = NoLoop

\* calculate_v2_amount_out at the two fees
OrderV2Fees ==
    /\ call = "none" /\ "reserve_in" \in DOMAIN args
    /\ call' = "v2_fees"
    /\ result' = <<calculate_v2_amount_out(args.amount_in, args.reserve_in,
                                           args.reserve_out, args.fee_bps),
                   calculate_v2_amount_out(args.amount_in, args.reserve_in,
                                           args.reserve_out, args.fee_bps2)>>
    /\ UNCHANGED <<args, loop>>

\* calculate_v2_amount_out at the two values of reserve_in
OrderV2ReserveIn ==
    /\ call = "none" /\ "reserve_in" \in DOMAIN args
    /\ call' = "v2_reserve_in"
    /\ result' = <<calculate_v2_amount_out(args.amount_in, args.reserve_in,
                                           args.reserve_out, args.fee_bps),
                   calculate_v2_amount_out(args.amount_in, args.reserve2,
                                           args.reserve_out, args.fee_bps)>>
    /\ UNCHANGED <<args, loop>>

\* calculate_v2_amount_out at the two values of reserve_out
OrderV2ReserveOut ==
    /\ call = "none" /\ "reserve_in" \in DOMAIN args
    /\ call' = "v2_reserve_out"
    /\ result' = <<calculate_v2_amount_out(args.amount_in, args.reserve_in,
                                           args.reserve_out, args.fee_bps),
                   calculate_v2_amount_out(args.amount_in, args.reserve_in,
                                           args.reserve2, args.fee_bps)>>
    /\ UNCHANGED <<args, loop>>

\* calculate_v3_amount_out at the two fees
OrderV3Fees ==
    /\ call = "none" /\ "liquidity" \in DOMAIN args
    /\ call' = "v3_fees"
    /\ result' = <<calculate_v3_amount_out(args.amount_in, args.sqrt_price_x96,
                       args.liquidity, args.fee_bps, args.direction),
                   calculate_v3_amount_out(args.amount_in, args.sqrt_price_x96,
                       args.liquidity, args.fee_bps2, args.direction)>>
    /\ UNCHANGED <<args, loop>>

NextOrder == OrderV2Fees \/ OrderV2ReserveIn \/ OrderV2ReserveOut \/ OrderV3Fees

SpecOrder == InitOrder /\ [][NextOrder]_vars

\* both calls of the state returned Ok
BothOk == call # "none" /\ IsOk(result[1]) /\ IsOk(result[2])

\* C14: with the other arguments fixed and fee1 <= fee2, the output of
\* calculate_v2_amount_out and of calculate_v3_amount_out (both directions)
\* at fee1 is at least the output at fee2, whenever both calls succeed.
C14_OutputNonIncreasingInFee ==
    (call \in {"v2_fees", "v3_fees"} /\ BothOk /\ args.fee_bps <= args.fee_bps2)
    => BLe(result[2].val, result[1].val)

\* C15 as stated: with amount_in and fee_bps fixed, calculate_v2_amount_out
\* does not fall when reserve_in rises, nor when reserve_out rises,
\* whenever both calls succeed.
C15_NonDecreasingInBothReserves ==
    /\ (call = "v2_reserve_in" /\ BothOk /\ BLe(args.reserve_in, args.reserve2))
       => BLe(result[1].val, result[2].val)
    /\ (call = "v2_reserve_out" /\ BothOk /\ BLe(args.reserve_out, args.reserve2))
       => BLe(result[1].val, result[2].val)

\* C15, amended: with amount_in and fee_bps fixed, calculate_v2_amount_out
\* does not rise when reserve_in rises, and does not fall when reserve_out
\* rises, whenever both calls succeed.
C15_DepthMonotonicity ==
    /\ (call = "v2_reserve_in" /\ BothOk /\ BLe(args.reserve_in, args.reserve2))
       => BLe(result[2].val, result[1].val)
    /\ (call = "v2_reserve_out" /\ BothOk /\ BLe(args.reserve_out, args.reserve2))
       => BLe(result[1].val, result[2].val)

\* a larger reserve_in has lowered the output, and a larger reserve_out
\* would have raised it
C15_Witness ==
    /\ call = "v2_reserve_in" /\ BothOk
    /\ BLt(args.reserve_in, args.reserve2)
    /\ BLt(result[2].val, result[1].val)
    /\ BLt(result[1].val,
           calculate_v2_amount_out(args.amount_in, args.reserve_in,
               BAdd(args.reserve_out, args.reserve2), args.fee_bps).val)

(***************************************************************************)
(* Uniswap V3: the pool state after a swap.  log2 values are i128 in       *)
(* Q64.64 and always multiples of 2^48 (the loop adds 16 fractional bits): *)
(* the model holds them in units of 2^48.                                  *)
(***************************************************************************)
\* value << k in 256 bits
BShl(value, k) == BMod(BMul(value, Pow2(k)), Pow2(256))

\* the binary search of find_msb_u256 from the step k on
RECURSIVE msb_search(_, _, _)
msb_search(r, k, msb) ==
    IF k = 0 THEN msb
    ELSE IF ~BLt(r, Pow2(k)) THEN msb_search(BShr(r, k), k \div 2, msb + k)
    ELSE msb_search(r, k \div 2, msb)

find_msb_u256(value) == IF value = <<>> THEN 0 ELSE msb_search(value, 128, 0)

\* Result::unwrap_or
unwrap_or(r, default) == IF IsOk(r) THEN r.val ELSE default

\* number of fractional bits log2_precise_with_base computes
LOG2_FRACTION_BITS == 16

\* the squaring loop from the bit i on
RECURSIVE log2_bits(_, _, _, _)
log2_bits(r, base_shift, i, log2) ==
    IF i > LOG2_FRACTION_BITS THEN log2
    ELSE With(unwrap_or(mul_div(r, r, Pow2(base_shift)), r),
           LAMBDA r_squared :
             IF ~BLt(r_squared, Pow2(base_shift + 1))
             THEN log2_bits(BShr(r_squared, 1), base_shift, i + 1,
                            log2 + 2^(LOG2_FRACTION_BITS - i))
             ELSE log2_bits(r_squared, base_shift, i + 1, log2))

\* value normalised to [2^base_shift, 2^(base_shift + 1))
log2_normalised(value, base_shift, msb) ==
    IF msb > base_shift THEN BShr(value, msb - base_shift)
    ELSE IF msb < base_shift THEN BShl(value, base_shift - msb)
    ELSE value

log2_from_msb(value, base_shift, msb) ==
    log2_bits(log2_normalised(value, base_shift, msb), base_shift, 1,
              (msb - base_shift) * 2^LOG2_FRACTION_BITS)

log2_precise_with_base(value, base_shift) ==
    IF value = <<>> THEN Err("InvalidInput")
    ELSE IF value = Pow2(base_shift) THEN Ok(0)
    ELSE Ok(log2_from_msb(value, base_shift, find_msb_u256(value)))

log2_precise_q64_64(value) == log2_precise_with_base(value, 64)

\* (new_sqrt_price << 64) / old_sqrt_price, computed in 512 bits
calculate_price_ratio(new_sqrt_price, old_sqrt_price) ==
    IF old_sqrt_price = <<>> THEN Err("DivisionByZero")
    ELSE IF new_sqrt_price = <<>> THEN Err("InvalidInput")
    ELSE Then(CheckedU512(BMul(ethers_u256_to_u512(new_sqrt_price),
                               u128_to_u512(Pow2(64)))),
           LAMBDA numerator :
             u512_to_ethers_u256(BDiv(numerator, ethers_u256_to_u512(old_sqrt_price))))

INV_LOG2_1_0001_INT == 6931

\* mutant: the whole part of log2_ratio, which carries its sign, is dropped
tick_delta_shift_of_fraction(log2_ratio) ==
    ((log2_ratio % 2^LOG2_FRACTION_BITS) * INV_LOG2_1_0001_INT) \div 2^LOG2_FRACTION_BITS

\* (log2_ratio * 6931) >> 64 for log2_ratio in units of 2^48: the whole part
\* of log2_ratio contributes a multiple of 6931, the 16 fractional bits the
\* rest, and >> rounds towards minus infinity
tick_delta_shift(log2_ratio) ==
    (log2_ratio \div 2^LOG2_FRACTION_BITS) * INV_LOG2_1_0001_INT
    + ((log2_ratio % 2^LOG2_FRACTION_BITS) * INV_LOG2_1_0001_INT)
      \div 2^LOG2_FRACTION_BITS

\* tick_delta.abs() > 10000 is an error
tick_delta_checked(tick_delta) ==
    IF tick_delta > 10000 \/ tick_delta < -10000 THEN Err("InvalidInput")
    ELSE Ok(tick_delta)

calculate_tick_delta_from_ratio(ratio) ==
    IF ratio = <<>> THEN Err("InvalidInput")
    ELSE Then(log2_precise_q64_64(ratio),
              LAMBDA log2_ratio : tick_delta_checked(tick_delta_shift(log2_ratio)))

\* i32::checked_add
i32_checked_add(a, b) ==
    IF b > 0 /\ a > 2147483647 - b THEN Err("Overflow")
    ELSE IF b < 0 /\ a < (-2147483647 - 1) - b THEN Err("Overflow")
    ELSE Ok(a + b)

\* new_tick.max(MIN_TICK).min(MAX_TICK)
clamp_tick(new_tick) ==
    IF new_tick < MIN_TICK THEN MIN_TICK
    ELSE IF new_tick > MAX_TICK THEN MAX_TICK
    ELSE new_tick

\* the new state from the new price: Ok(<<new_sqrt_price, new_tick>>)
v3_state_at(new_sqrt_price, sqrt_price_x96, tick) ==
    Then(calculate_price_ratio(new_sqrt_price, sqrt_price_x96),
      LAMBDA ratio :
    Then(calculate_tick_delta_from_ratio(ratio),
      LAMBDA tick_delta :
    Then(i32_checked_add(tick, tick_delta),
      LAMBDA new_tick : Ok(<<new_sqrt_price, clamp_tick(new_tick)>>))))

calculate_v3_post_frontrun_state(frontrun_amount, sqrt_price_x96, liquidity, tick, fee_bps, direction) ==
    IF v3_invalid_input(frontrun_amount, sqrt_price_x96, liquidity)
    THEN Err("InvalidInput")
    ELSE Then(v3_amount_in_after_fee(frontrun_amount, fee_bps),
           LAMBDA amount_in_after_fee :
             IF amount_in_after_fee = <<>> THEN Ok(<<sqrt_price_x96, tick>>)
             ELSE Then(v3_new_sqrt_price(amount_in_after_fee, sqrt_price_x96,
                                         liquidity, direction),
                    LAMBDA new_sqrt_price :
                      v3_state_at(new_sqrt_price, sqrt_price_x96, tick)))

calculate_v3_post_victim_state(victim_amount, sqrt_price_x96, liquidity, tick, fee_bps, direction) ==
    calculate_v3_post_frontrun_state(victim_amount, sqrt_price_x96, liquidity,
                                     tick, fee_bps, direction)

\* the front-run amount swapped at the first price, its output swapped again
\* at the price the victim leaves, both Token0ToToken1
v3_backrun_output(frontrun_amount, sqrt_price_x96, sqrt_price_post_victim, liquidity, fee_bps) ==
    Then(calculate_v3_amount_out(frontrun_amount, sqrt_price_x96, liquidity,
                                 fee_bps, "Token0ToToken1"),
         LAMBDA backrun_input :
           calculate_v3_amount_out(backrun_input, sqrt_price_post_victim,
                                   liquidity, fee_bps, "Token0ToToken1"))

\* backrun_output - total_cost, or zero
v3_profit_from(backrun_output, total_cost) ==
    IF BLe(total_cost, backrun_output) THEN Ok(BSub(backrun_output, total_cost))
    ELSE Ok(<<>>)

\* total_cost = frontrun_amount + flash_loan_cost, U256::MAX if that overflows
v3_profit(backrun_output, frontrun_amount, flash_loan_cost) ==
    v3_profit_from(backrun_output,
                   unwrap_or(checked_add(frontrun_amount, flash_loan_cost), MaxU256))

\* the price after the front-run and the victim's swap, both Token0ToToken1
v3_price_post_victim(frontrun_amount, victim_amount, sqrt_price_x96, liquidity, tick, fee_bps) ==
    Then(calculate_v3_post_frontrun_state(frontrun_amount, sqrt_price_x96,
             liquidity, tick, fee_bps, "Token0ToToken1"),
         LAMBDA post_frontrun :
    Then(calculate_v3_post_victim_state(victim_amount, post_frontrun[1],
             liquidity, tick, fee_bps, "Token0ToToken1"),
         LAMBDA post_victim : Ok(post_victim[1])))

calculate_v3_sandwich_profit(frontrun_amount, victim_amount, sqrt_price_x96, liquidity, tick, fee_bps, aave_fee_bps) ==
    Then(v3_price_post_victim(frontrun_amount, victim_amount, sqrt_price_x96,
                              liquidity, tick, fee_bps),
      LAMBDA sqrt_price_post_victim :
    Then(v3_backrun_output(frontrun_amount, sqrt_price_x96,
                           sqrt_price_post_victim, liquidity, fee_bps),
      LAMBDA backrun_output :
    Then(v2_flash_loan_cost(frontrun_amount, aave_fee_bps),
      LAMBDA flash_loan_cost :
        v3_profit(backrun_output, frontrun_amount, flash_loan_cost))))

(***************************************************************************)
(* Uniswap V3: the calls.                                                  *)
(***************************************************************************)
V3Amounts == {N(0), N(1), Pow10(15), Pow10(18), Pow10(19)}

\* zero, the two ends of the valid range and their neighbours, 1.0
V3Prices ==
    {N(0), BSub(MIN_SQRT_RATIO, N(1)), MIN_SQRT_RATIO, Q96, get_max_sqrt_ratio,
     BAdd(get_max_sqrt_ratio, N(1))}

V3Liquidity == {N(0), Pow10(18), Pow10(21)}

V3Ticks == {MIN_TICK, 0, MAX_TICK}

V3Args ==
    [amount_in : V3Amounts, victim_amount : {Pow10(18)},
     sqrt_price_x96 : V3Prices, liquidity : V3Liquidity, tick : V3Ticks,
     fee_bps : {0, 30, BPS_MAX}, aave_fee_bps : {9}, direction : V3Directions]

InitV3 == /\ call = "none"
          /\ args \in V3Args
          /\ result = NoResult
          /\ loop = NoLoop

V3AmountOut ==
    /\ call = "none"
    /\ call' = "calculate_v3_amount_out"
    /\ result' = calculate_v3_amount_out(args.amount_in, args.sqrt_price_x96,
                     args.liquidity, args.fee_bps, args.direction)
    /\ UNCHANGED <<args, loop>>

V3PostFrontrunState ==
    /\ call = "none"
    /\ call' = "calculate_v3_post_frontrun_state"
    /\ result' = calculate_v3_post_frontrun_state(args.amount_in,
                     args.sqrt_price_x96, args.liquidity, args.tick,
                     args.fee_bps, args.direction)
    /\ UNCHANGED <<args, loop>>

\* the sandwich has no direction argument
V3SandwichProfit ==
    /\ call = "none"
    /\ args.direction = "Token0ToToken1"
    /\ call' = "calculate_v3_sandwich_profit"
    /\ result' = calculate_v3_sandwich_profit(args.amount_in, args.victim_amount,
                     args.sqrt_price_x96, args.liquidity, args.tick,
                     args.fee_bps, args.aave_fee_bps)
    /\ UNCHANGED <<args, loop>>

NextV3 == V3AmountOut \/ V3PostFrontrunState \/ V3SandwichProfit

SpecV3 == InitV3 /\ [][NextV3]_vars

\* the sqrt price lies outside [MIN_SQRT_RATIO, MAX_SQRT_RATIO]
V3PriceOutOfRange(sqrt_price_x96) ==
    BLt(sqrt_price_x96, MIN_SQRT_RATIO) \/ BLt(get_max_sqrt_ratio, sqrt_price_x96)

\* C18: calculate_v3_amount_out and calculate_v3_post_frontrun_state return
\* InvalidInput when amount_in is zero, when liquidity is zero, and when
\* sqrt_price_x96 is below MIN_SQRT_RATIO or above MAX_SQRT_RATIO.
C18_V3InvalidInputs ==
    (/\ call \in {"calculate_v3_amount_out", "calculate_v3_post_frontrun_state"}
     /\ \/ args.amount_in = <<>>
        \/ args.liquidity = <<>>
        \/ V3PriceOutOfRange(args.sqrt_price_x96))
    => IsErr(result, "InvalidInput")

\* the amount left of the state's input after the fee is not zero
V3AfterFeeNonZero ==
    unwrap_or(v3_amount_in_after_fee(args.amount_in, args.fee_bps), <<>>) # <<>>

\* C19: when calculate_v3_post_frontrun_state returns Ok((new_sqrt_price,
\* new_tick)) for an input whose amount after the fee is not zero and whose
\* tick is in [MIN_TICK, MAX_TICK], a Token0ToToken1 swap has new_sqrt_price
\* < sqrt_price_x96 and new_tick <= tick, and a Token1ToToken0 swap has
\* new_sqrt_price >= sqrt_price_x96 and new_tick >= tick.
C19_V3PostFrontrunDirection ==
    (/\ call = "calculate_v3_post_frontrun_state" /\ IsOk(result)
     /\ V3AfterFeeNonZero
     /\ args.tick >= MIN_TICK /\ args.tick <= MAX_TICK)
    => IF args.direction = "Token0ToToken1"
       THEN BLt(result.val[1], args.sqrt_price_x96) /\ result.val[2] <= args.tick
       ELSE BLe(args.sqrt_price_x96, result.val[1]) /\ result.val[2] >= args.tick

\* a Token0ToToken1 swap has lowered the price and the tick
C19_Witness ==
    /\ call = "calculate_v3_post_frontrun_state" /\ IsOk(result)
    /\ V3AfterFeeNonZero
    /\ args.direction = "Token0ToToken1" /\ args.tick = 0
    /\ BLt(result.val[1], args.sqrt_price_x96)
    /\ result.val[2] < 0

\* the back-run of the specification: the front-run's output a_out swapped
\* Token1ToToken0 at the price the victim leaves
V3OppositeBackrun(sqrt_price_post_victim) ==
    Then(calculate_v3_amount_out(args.amount_in, args.sqrt_price_x96,
                                 args.liquidity, args.fee_bps, "Token0ToToken1"),
         LAMBDA a_out :
           calculate_v3_amount_out(a_out, sqrt_price_post_victim, args.liquidity,
                                   args.fee_bps, "Token1ToToken0"))

\* the profit computed from that back-run
V3OppositeProfit ==
    Then(v3_price_post_victim(args.amount_in, args.victim_amount,
             args.sqrt_price_x96, args.liquidity, args.tick, args.fee_bps),
      LAMBDA sqrt_price_post_victim :
    Then(V3OppositeBackrun(sqrt_price_post_victim),
      LAMBDA back :
    Then(v2_flash_loan_cost(args.amount_in, args.aave_fee_bps),
      LAMBDA flash_loan_cost : v3_profit(back, args.amount_in, flash_loan_cost))))

\* C16: the back-run of calculate_v3_sandwich_profit swaps the front-run's
\* output in the direction opposite to the front-run, at the price the
\* victim's swap leaves, and the profit returned is computed from that
\* back-run's output.
C16_V3BackrunIsOpposite ==
    (call = "calculate_v3_sandwich_profit" /\ IsOk(result))
    => result = V3OppositeProfit
(***************************************************************************)
(* sqrt_u256 (curve/math.rs), one iteration of its loop a step.  loop.z    *)
(* and loop.y are the variables z and y, loop.it the iterations run.       *)
(***************************************************************************)
\* the + of U256: it panics when the sum does not fit 256 bits
u256_add(a, b) == IF FitsU256(BAdd(a, b)) THEN Ok(BAdd(a, b)) ELSE Panic

SQRT_MAX_ITERATIONS == 256

SqrtInputs ==
    {N(0), N(1), N(2), N(3), N(4), N(8), N(9), N(15), N(16), N(99), N(100),
     Pow10(18), BSub(Pow2(128), <<1>>), Pow2(128), Pow2(255),
     BDiv(MaxU256, N(2)), BSub(MaxU256, <<1>>), MaxU256}

InitSqrt == /\ call = "none"
            /\ args \in [x : SqrtInputs]
            /\ result = NoResult
            /\ loop = NoLoop

\* (z + 1) / 2
sqrt_first_guess(z) == Then(u256_add(z, N(1)), LAMBDA s : Ok(BDiv(s, N(2))))

\* (z + x / z) / 2
sqrt_next_guess(x, z) == Then(u256_add(z, BDiv(x, z)), LAMBDA s : Ok(BDiv(s, N(2))))

\* the state a guess leads to: a panic ends the call
SqrtWithGuess(it, z, guess) ==
    IF IsOk(guess)
    THEN /\ loop' = [it |-> it, z |-> z, y |-> guess.val]
         /\ result' = NoResult
    ELSE /\ loop' = [it |-> it, z |-> z, y |-> z]
         /\ result' = guess

\* the call up to its loop
SqrtCall ==
    /\ call = "none"
    /\ call' = "sqrt_u256"
    /\ IF args.x = N(0) \/ args.x = N(1)
       THEN /\ loop' = NoLoop
            /\ result' = Ok(args.x)
       ELSE SqrtWithGuess(0, args.x, sqrt_first_guess(args.x))
    /\ UNCHANGED args

\* one iteration that does not break
SqrtStep ==
    /\ call = "sqrt_u256" /\ loop # NoLoop /\ result = NoResult
    /\ loop.it < SQRT_MAX_ITERATIONS
    /\ BLt(loop.y, loop.z)
    /\ SqrtWithGuess(loop.it + 1, loop.y, sqrt_next_guess(args.x, loop.y))
    /\ UNCHANGED <<call, args>>

\* the break, or the end of the 256 iterations, and Ok(z)
SqrtReturn ==
    /\ call = "sqrt_u256" /\ loop # NoLoop /\ result = NoResult
    /\ loop.it = SQRT_MAX_ITERATIONS \/ BLe(loop.z, loop.y)
    /\ result' = Ok(loop.z)
    /\ UNCHANGED <<call, args, loop>>

NextSqrt == SqrtCall \/ SqrtStep \/ SqrtReturn

SpecSqrt == InitSqrt /\ [][NextSqrt]_vars

\* r is the integer square root of x
IsFloorSqrt(r, x) ==
    /\ BLe(BMul(r, r), x)
    /\ BLt(x, BMul(BAdd(r, <<1>>), BAdd(r, <<1>>)))

\* C17: for every 256-bit x, 2^256 - 1 included, sqrt_u256(x) returns Ok(r)
\* with r * r <= x < (r + 1) * (r + 1), within the 256 iterations of its
\* loop and without an addition that overflows.
C17_SqrtIsFloorRoot ==
    (call = "sqrt_u256" /\ result # NoResult)
    => /\ IsOk(result)
       /\ IsFloorSqrt(result.val, args.x)
       /\ loop # NoLoop => loop.it <= SQRT_MAX_ITERATIONS

\* the function returns the integer square root whenever it returns
C17_SqrtOkIsFloorRoot ==
    (call = "sqrt_u256" /\ IsOk(result))
    => /\ IsFloorSqrt(result.val, args.x)
       /\ loop # NoLoop => BLe(loop.z, loop.y) /\ loop.it < SQRT_MAX_ITERATIONS
(***************************************************************************)
(* Uniswap V3 tick math (uniswap_v3/math.rs): get_sqrt_ratio_at_tick and   *)
(* sqrt_price_to_tick.  A tick is a machine integer.                       *)
(***************************************************************************)
\* abs_tick & (1 << k) != 0
TickBit(abs_tick, k) == (abs_tick \div 2^k) % 2 = 1

\* the constants of get_sqrt_ratio_at_tick, one per bit of abs_tick; the
\* first is the initial ratio of an odd tick
TickFactors ==
    <<Dec(<<340, 2653, 5407, 8544, 9635, 5781, 6517, 320, 7514, 9313>>),
       Dec(<<340, 2483, 4208, 6729, 7904, 8432, 6174, 8142, 8678, 2906>>),
       Dec(<<340, 2143, 2065, 4664, 3240, 5192, 982, 7160, 1518, 1772>>),
       Dec(<<340, 1462, 8799, 5602, 3236, 3117, 1512, 1018, 7968, 4816>>),
       Dec(<<340, 102, 6348, 8231, 1468, 2359, 3991, 6791, 5946, 1444>>),
       Dec(<<339, 7383, 7764, 345, 4036, 9715, 7401, 1043, 7550, 2528>>),
       Dec(<<339, 1952, 5800, 3219, 5557, 703, 4227, 4545, 4399, 7025>>),
       Dec(<<338, 1116, 2210, 601, 8346, 5680, 5679, 9884, 1488, 5971>>),
       Dec(<<335, 9547, 2499, 4790, 2230, 2358, 9805, 7897, 7897, 7700>>),
       Dec(<<331, 6821, 2113, 8379, 2471, 2717, 2139, 785, 5981, 7300>>),
       Dec(<<323, 2992, 3668, 4853, 232, 8821, 1250, 2681, 6061, 8739>>),
       Dec(<<307, 1637, 1637, 7032, 9899, 4869, 7243, 9426, 8, 3417>>),
       Dec(<<277, 2684, 362, 6896, 2201, 6299, 9269, 2160, 8759, 5813>>),
       Dec(<<225, 9234, 5394, 442, 6219, 4712, 6027, 1274, 8539, 1333>>),
       Dec(<<149, 9972, 1408, 4966, 9977, 2733, 242, 825, 3820, 5943>>),
       Dec(<<66, 1191, 113, 6024, 7756, 2271, 6233, 6084, 6651, 7926>>),
       Dec(<<12, 8473, 7606, 1809, 2975, 3029, 974, 1904, 7813, 8441>>),
       Dec(<<4850, 5326, 817, 661, 7274, 6253, 6840, 2997, 4020>>),
       Dec(<<6, 9141, 5978, 9065, 2157, 653, 4353, 421, 4168>>),
       Dec(<<1404, 8804, 8267, 9654, 9558, 9618, 642>>)>>

\* the * of U256: it panics when the product does not fit 256 bits
u256_mul(a, b) == IF FitsU256(BMul(a, b)) THEN Ok(BMul(a, b)) ELSE Panic

\* ratio = (ratio * constant) >> 128 for the set bits k .. 19 of abs_tick
RECURSIVE ratio_loop(_, _, _)
ratio_loop(abs_tick, k, ratio) ==
    IF k > 19 THEN Ok(ratio)
    ELSE IF TickBit(abs_tick, k)
    THEN Then(u256_mul(ratio, TickFactors[k + 1]),
              LAMBDA p : ratio_loop(abs_tick, k + 1, BShr(p, 128)))
    ELSE ratio_loop(abs_tick, k + 1, ratio)

\* result >> 32, plus one if a bit was shifted out
sqrt_price_round_up(v) ==
    IF BLowBits(v, 32) = <<>> THEN BShr(v, 32) ELSE BAdd(BShr(v, 32), <<1>>)

\* abs_tick
tick_abs(tick) == IF tick < 0 THEN -tick ELSE tick

\* the ratio in Q128.128 of a tick that is no fast path
tick_ratio(tick) ==
    Then(ratio_loop(tick_abs(tick), 1,
                    IF TickBit(tick_abs(tick), 0) THEN TickFactors[1] ELSE Pow2(128)),
         LAMBDA ratio : Ok(IF tick > 0 THEN BDiv(MaxU256, ratio) ELSE ratio))

get_sqrt_ratio_at_tick(tick) ==
    IF tick < MIN_TICK \/ tick > MAX_TICK THEN Err("InvalidInput")
    ELSE IF tick = 0 THEN Ok(Q96)
    ELSE IF tick = MIN_TICK THEN Ok(MIN_SQRT_RATIO)
    ELSE IF tick = MAX_TICK THEN Ok(get_max_sqrt_ratio)
    ELSE Then(tick_ratio(tick), LAMBDA r128 : Ok(sqrt_price_round_up(r128)))
\* the checked difference hi - lo of two results, the first error otherwise
sub_results(hi, lo) ==
    Then(hi, LAMBDA h : Then(lo, LAMBDA l : checked_sub(h, l, "Underflow")))

calculate_derivative(tick) ==
    IF tick <= MIN_TICK
    THEN sub_results(get_sqrt_ratio_at_tick(tick + 1), get_sqrt_ratio_at_tick(tick))
    ELSE IF tick >= MAX_TICK
    THEN sub_results(get_sqrt_ratio_at_tick(tick), get_sqrt_ratio_at_tick(tick - 1))
    ELSE Then(sub_results(get_sqrt_ratio_at_tick(tick + 1),
                          get_sqrt_ratio_at_tick(tick - 1)),
              LAMBDA diff : Ok(BDiv(diff, N(2))))

\* the / of i32 for a divisor that is not zero: it rounds towards zero
i32_div(a, b) ==
    IF (a >= 0) = (b > 0) THEN tick_abs(a) \div tick_abs(b)
    ELSE -(tick_abs(a) \div tick_abs(b))

\* one step of a binary search on [low, high]: Ok(<<low, high>>)
bisect(sqrt_price_x96, low, high) ==
    Then(get_sqrt_ratio_at_tick(i32_div(low + high, 2)),
         LAMBDA mid_sqrt :
           IF BLe(mid_sqrt, sqrt_price_x96)
           THEN Ok(<<i32_div(low + high, 2), high>>)
           ELSE Ok(<<low, i32_div(low + high, 2)>>))

\* at most `steps` steps of the binary search, while high - low > 1
RECURSIVE bisect_loop(_, _, _, _)
bisect_loop(sqrt_price_x96, low, high, steps) ==
    IF steps = 0 \/ high - low <= 1 THEN Ok(low)
    ELSE Then(bisect(sqrt_price_x96, low, high),
              LAMBDA lh : bisect_loop(sqrt_price_x96, lh[1], lh[2], steps - 1))

INITIAL_GUESS_STEPS == 5

calculate_initial_guess(sqrt_price_x96) ==
    bisect_loop(sqrt_price_x96, MIN_TICK, MAX_TICK, INITIAL_GUESS_STEPS)

check_convergence(tick, sqrt_price_x96, tolerance) ==
    Then(get_sqrt_ratio_at_tick(tick),
         LAMBDA sqrt_at_tick : Ok(BLt(AbsDiff(sqrt_at_tick, sqrt_price_x96), tolerance)))

\* SCALE of newton_iteration
NEWTON_SCALE == Pow10(18)

\* an offset from which the clamp to [MIN_TICK, MAX_TICK] gives the same tick
TickSpan == 2097152

\* the machine integer of v, capped at TickSpan
tick_offset(v) ==
    IF ~BLt(v, N(TickSpan)) THEN TickSpan
    ELSE IF v = <<>> THEN 0
    ELSE IF Len(v) = 1 THEN v[1] ELSE v[1] + Base * v[2]

\* tick -/+ (delta.as_u128() as i128), clamped.  as_u128 panics from 2^128
\* on; from 2^127 on the cast to i128 is negative and the step goes the
\* other way
newton_tick_new(tick, delta, f_tick_sign) ==
    IF ~BLt(delta, Pow2(128)) THEN Panic
    ELSE IF BLt(delta, Pow2(127))
    THEN Ok(clamp_tick(IF f_tick_sign THEN tick - tick_offset(delta)
                       ELSE tick + tick_offset(delta)))
    ELSE Ok(clamp_tick(IF f_tick_sign THEN tick + tick_offset(BSub(Pow2(128), delta))
                       ELSE tick - tick_offset(BSub(Pow2(128), delta))))

\* the step from f(tick) and f'(tick)
newton_delta(f_tick_abs, f_prime) ==
    IF f_prime = <<>> THEN Err("DivisionByZero")
    ELSE Then(checked_mul(f_tick_abs, NEWTON_SCALE),
              LAMBDA f_tick_scaled : Ok(BDiv(BDiv(f_tick_scaled, f_prime), NEWTON_SCALE)))

newton_iteration(tick, sqrt_price_x96) ==
    Then(get_sqrt_ratio_at_tick(tick), LAMBDA sqrt_at_tick :
    Then(calculate_derivative(tick), LAMBDA f_prime :
    Then(newton_delta(AbsDiff(sqrt_at_tick, sqrt_price_x96), f_prime),
         LAMBDA delta :
           newton_tick_new(tick, delta, BLe(sqrt_price_x96, sqrt_at_tick)))))

\* the closest of tick - 1, tick and tick + 1 from the three distances
closest_of(tick, diff_low, diff_current, diff_high) ==
    IF BLe(diff_low, diff_current) /\ BLe(diff_low, diff_high)
    THEN Ok(clamp_tick(tick - 1))
    ELSE IF BLe(diff_high, diff_current) THEN Ok(clamp_tick(tick + 1))
    ELSE Ok(tick)

\* the return of a converged iteration
closest_tick(tick, sqrt_price_x96) ==
    Then(get_sqrt_ratio_at_tick(clamp_tick(tick - 1)), LAMBDA sqrt_low :
    Then(get_sqrt_ratio_at_tick(clamp_tick(tick + 1)), LAMBDA sqrt_high :
    Then(get_sqrt_ratio_at_tick(tick), LAMBDA sqrt_current :
      closest_of(tick, AbsDiff(sqrt_low, sqrt_price_x96),
                 AbsDiff(sqrt_current, sqrt_price_x96),
                 AbsDiff(sqrt_high, sqrt_price_x96)))))

\* mutant: a fallback that stops after the steps of the initial guess
tick_fallback_of_guess(sqrt_price_x96) == calculate_initial_guess(sqrt_price_x96)

\* the binary search sqrt_price_to_tick falls back to
tick_fallback(sqrt_price_x96) ==
    bisect_loop(sqrt_price_x96, MIN_TICK, MAX_TICK, MAX_TICK - MIN_TICK)

\* MAX_ITERATIONS of sqrt_price_to_tick
TICK_MAX_ITERATIONS == 10

\* the Newton loop of sqrt_price_to_tick from its iteration it on
RECURSIVE tick_newton_loop(_, _, _, _)
tick_newton_loop(tick, sqrt_price_x96, tolerance, it) ==
    IF it = TICK_MAX_ITERATIONS THEN tick_fallback(sqrt_price_x96)
    ELSE Then(check_convergence(tick, sqrt_price_x96, tolerance), LAMBDA converged :
           IF converged THEN closest_tick(tick, sqrt_price_x96)
           ELSE Then(newton_iteration(tick, sqrt_price_x96), LAMBDA tick_new :
                  IF tick_new = tick THEN tick_fallback(sqrt_price_x96)
                  ELSE tick_newton_loop(tick_new, sqrt_price_x96, tolerance, it + 1)))

sqrt_price_to_tick(sqrt_price_x96) ==
    IF BLt(sqrt_price_x96, MIN_SQRT_RATIO) THEN Ok(MIN_TICK)
    ELSE IF BLe(get_max_sqrt_ratio, sqrt_price_x96) THEN Ok(MAX_TICK)
    ELSE IF sqrt_price_x96 = Q96 THEN Ok(0)
    ELSE IF sqrt_price_x96 = MIN_SQRT_RATIO THEN Ok(MIN_TICK)
    ELSE Then(calculate_initial_guess(sqrt_price_x96), LAMBDA tick :
           tick_newton_loop(tick, sqrt_price_x96,
                            unwrap_or(checked_div(sqrt_price_x96, Pow10(9)), N(1)), 0))
(***************************************************************************)
(* A tick converted to its price and back.                                 *)
(***************************************************************************)
MaxTickOffset == 5

\* ticks at both ends of the range, around zero, one bit set, and outside
TickSamples ==
    {MIN_TICK - 1, MAX_TICK + 1, -500000, -123457, 60000, 443636, 700001}
    \cup {MIN_TICK + k : k \in 0..MaxTickOffset}
    \cup {MAX_TICK - k : k \in 0..MaxTickOffset}
    \cup {k - MaxTickOffset : k \in 0..(2 * MaxTickOffset)}
    \cup {2^k : k \in {6, 11, 16, 19}} \cup {-(2^k) : k \in {6, 11, 16, 19}}

InitTick == /\ call = "none"
            /\ args \in [tick : TickSamples]
            /\ result = NoResult
            /\ loop = NoLoop

GetSqrtRatioAtTick ==
    /\ call = "none"
    /\ call' = "get_sqrt_ratio_at_tick"
    /\ result' = get_sqrt_ratio_at_tick(args.tick)
    /\ UNCHANGED <<args, loop>>

\* the price just computed handed to sqrt_price_to_tick
SqrtPriceToTick ==
    /\ call = "get_sqrt_ratio_at_tick" /\ IsOk(result)
    /\ call' = "sqrt_price_to_tick"
    /\ args' = [tick |-> args.tick, sqrt_price_x96 |-> result.val]
    /\ result' = sqrt_price_to_tick(result.val)
    /\ UNCHANGED loop

NextTick == GetSqrtRatioAtTick \/ SqrtPriceToTick

SpecTick == InitTick /\ [][NextTick]_vars

\* C9: for every tick t in [MIN_TICK, MAX_TICK],
\* sqrt_price_to_tick(get_sqrt_ratio_at_tick(t)) differs from t by at most
\* 1, and it is exactly t for t in {MIN_TICK, 0, MAX_TICK}.
C9_TickRoundTrip ==
    (call = "sqrt_price_to_tick")
    => /\ IsOk(result)
       /\ result.val - args.tick <= 1 /\ args.tick - result.val <= 1
       /\ args.tick \in {MIN_TICK, 0, MAX_TICK} => result.val = args.tick

\* a tick that is no fast path has come back from its price
C9_Witness ==
    /\ call = "sqrt_price_to_tick" /\ IsOk(result)
    /\ args.tick = 443636 /\ result.val = 443636
    /\ args.sqrt_price_x96 # Q96

\* get_sqrt_ratio_at_tick fails exactly outside [MIN_TICK, MAX_TICK]
TickRatioDefined ==
    (call = "get_sqrt_ratio_at_tick")
    => IF args.tick < MIN_TICK \/ args.tick > MAX_TICK
       THEN IsErr(result, "InvalidInput") ELSE IsOk(result)
(***************************************************************************)
(* simulate_swap_with_ticks (uniswap_v3/math.rs), one iteration of its     *)
(* loop a step.  loop holds segments, remaining_amount,                    *)
(* current_sqrt_price and current_tick.                                    *)
(***************************************************************************)
\* the binary search of find_next_initialized_tick: the number of ticks
\* that are <= current_tick when the list is sorted
RECURSIVE next_tick_search(_, _, _, _)
next_tick_search(initialized_ticks, current_tick, left, right) ==
    IF left >= right THEN left
    ELSE IF initialized_ticks[(left + right) \div 2 + 1] <= current_tick
    THEN next_tick_search(initialized_ticks, current_tick, (left + right) \div 2 + 1, right)
    ELSE next_tick_search(initialized_ticks, current_tick, left, (left + right) \div 2)

\* the tick at position left, or the next multiple of tick_spacing; the
\* division panics for a spacing of zero
next_tick_at(left, current_tick, initialized_ticks, tick_spacing) ==
    IF left < Len(initialized_ticks) THEN Ok(initialized_ticks[left + 1])
    ELSE IF tick_spacing = 0 THEN Panic
    ELSE Ok((i32_div(current_tick, tick_spacing) + 1) * tick_spacing)

find_next_initialized_tick(current_tick, initialized_ticks, tick_spacing) ==
    next_tick_at(next_tick_search(initialized_ticks, current_tick, 0, Len(initialized_ticks)),
                 current_tick, initialized_ticks, tick_spacing)

SWAP_MAX_SEGMENTS == 1000

\* liquidity * (next_tick_sqrt_price - current_sqrt_price) / 2^96
max_amount_to_next_tick(current_sqrt_price, next_tick_sqrt_price, liquidity) ==
    Then(checked_sub(next_tick_sqrt_price, current_sqrt_price, "Underflow"),
         LAMBDA sqrt_price_delta :
           Then(checked_mul(liquidity, sqrt_price_delta),
                LAMBDA v : checked_div(v, Q96)))

\* the maximum for the segment that starts at a price and a tick
max_amount_from(current_sqrt_price, current_tick, a) ==
    Then(find_next_initialized_tick(current_tick, a.initialized_ticks, a.tick_spacing),
         LAMBDA next_tick :
           Then(get_sqrt_ratio_at_tick(next_tick),
                LAMBDA next_tick_sqrt_price :
                  max_amount_to_next_tick(current_sqrt_price, next_tick_sqrt_price,
                                          a.current_liquidity)))

\* mutant: a segment that takes all that remains
segment_amount_all(remaining_amount, max_amount) == remaining_amount

\* segment_amount
segment_amount_of(remaining_amount, max_amount) == BMin(remaining_amount, max_amount)

\* segment_fee
segment_fee_of(segment_amount, fee_bps) ==
    Then(checked_mul(segment_amount, N(fee_bps)),
         LAMBDA v : checked_div(v, N(10000)))

\* new_sqrt_price
segment_new_price(current_sqrt_price, segment_amount, segment_fee, liquidity) ==
    Then(checked_sub(segment_amount, segment_fee, "Underflow"),
         LAMBDA amount_after_fee :
           Then(checked_mul(amount_after_fee, Q96),
                LAMBDA v :
                  Then(checked_div(v, liquidity),
                       LAMBDA price_impact : checked_add(current_sqrt_price, price_impact))))

\* the SwapSegment pushed
SwapSegment(l, a, new_sqrt_price, new_tick, segment_amount, segment_fee) ==
    [sqrt_price_start |-> l.current_sqrt_price, sqrt_price_end |-> new_sqrt_price,
     tick_start |-> l.current_tick, tick_end |-> new_tick,
     liquidity |-> a.current_liquidity,
     amount_in |-> segment_amount, fee_amount |-> segment_fee]

\* the end of an iteration: the segment is pushed, the variables updated,
\* and the loop left if the segment stayed below the maximum
swap_advance(l, a, max_amount, segment_amount, segment_fee, new_sqrt_price, new_tick) ==
    Then(checked_sub(l.remaining_amount, segment_amount, "Underflow"),
         LAMBDA remaining_amount :
           Ok([segments |-> Append(l.segments,
                             SwapSegment(l, a, new_sqrt_price, new_tick,
                                         segment_amount, segment_fee)),
               remaining_amount |-> remaining_amount,
               current_sqrt_price |-> new_sqrt_price,
               current_tick |-> new_tick,
               broke |-> BLt(segment_amount, max_amount)]))

\* an iteration from the segment's amount on
swap_segment(l, a, max_amount, segment_amount) ==
    Then(segment_fee_of(segment_amount, a.fee_bps), LAMBDA segment_fee :
    Then(segment_new_price(l.current_sqrt_price, segment_amount, segment_fee,
                           a.current_liquidity), LAMBDA new_sqrt_price :
    Then(sqrt_price_to_tick(new_sqrt_price), LAMBDA new_tick :
      swap_advance(l, a, max_amount, segment_amount, segment_fee,
                   new_sqrt_price, new_tick))))

\* one iteration of the loop: Ok(the loop's variables after it), or the
\* error it returns
swap_iteration(l, a) ==
    Then(max_amount_from(l.current_sqrt_price, l.current_tick, a),
         LAMBDA max_amount :
           swap_segment(l, a, max_amount,
                        segment_amount_of(l.remaining_amount, max_amount)))
\* swaps from tick 0 through initialized ticks
SwapFlowArgs ==
    [amount_in : {N(0), N(5), Pow10(15)}, sqrt_price_start : {Q96},
     current_liquidity : {Pow10(18)}, fee_bps : {0, 30},
     tick_spacing : {10}, initialized_ticks : {<<-20, 1, 2, 3>>}]

\* swaps with little or no liquidity, below the price range, and with a
\* spacing that is zero or negative
SwapThinArgs ==
    [amount_in : {N(5)}, sqrt_price_start : {Q96, BSub(MIN_SQRT_RATIO, <<1>>)},
     current_liquidity : {N(0), N(1)}, fee_bps : {0},
     tick_spacing : {-10, 0, 1}, initialized_ticks : {<<>>}]

\* a swap whose whole input is the fee
SwapAllFeeArgs ==
    [amount_in : {Pow10(13)}, sqrt_price_start : {Q96},
     current_liquidity : {Pow10(6)}, fee_bps : {BPS_MAX},
     tick_spacing : {1}, initialized_ticks : {<<>>}]

InitSwap == /\ call = "none"
            /\ args \in SwapFlowArgs \cup SwapThinArgs \cup SwapAllFeeArgs
            /\ result = NoResult
            /\ loop = NoLoop

\* the call up to its loop
SwapCall ==
    /\ call = "none"
    /\ call' = "simulate_swap_with_ticks"
    /\ \E current_tick \in {sqrt_price_to_tick(args.sqrt_price_start)} :
         IF IsOk(current_tick)
         THEN /\ loop' = [segments |-> <<>>, remaining_amount |-> args.amount_in,
                          current_sqrt_price |-> args.sqrt_price_start,
                          current_tick |-> current_tick.val]
              /\ result' = NoResult
         ELSE /\ loop' = NoLoop
              /\ result' = current_tick
    /\ UNCHANGED args

\* the condition of the while loop
swap_continues(l) ==
    l.remaining_amount # <<>> /\ Len(l.segments) < SWAP_MAX_SEGMENTS

\* one iteration of the loop; an error is returned, and so are the segments
\* when the iteration breaks
SwapIteration ==
    /\ call = "simulate_swap_with_ticks" /\ loop # NoLoop /\ result = NoResult
    /\ swap_continues(loop)
    /\ \E r \in {swap_iteration(loop, args)} :
         IF IsOk(r)
         THEN /\ loop' = [segments |-> r.val.segments,
                          remaining_amount |-> r.val.remaining_amount,
                          current_sqrt_price |-> r.val.current_sqrt_price,
                          current_tick |-> r.val.current_tick]
              /\ result' = IF r.val.broke THEN Ok(r.val.segments) ELSE NoResult
         ELSE /\ loop' = loop
              /\ result' = r
    /\ UNCHANGED <<call, args>>

\* the loop's condition fails: Ok(segments)
SwapReturn ==
    /\ call = "simulate_swap_with_ticks" /\ loop # NoLoop /\ result = NoResult
    /\ ~swap_continues(loop)
    /\ result' = Ok(loop.segments)
    /\ UNCHANGED <<call, args, loop>>

NextSwap == SwapCall \/ SwapIteration \/ SwapReturn

SpecSwap == InitSwap /\ [][NextSwap]_vars

\* the sum of amount_in over the segments lo .. hi
RECURSIVE SegmentsIn(_, _, _)
SegmentsIn(segments, lo, hi) ==
    IF lo > hi THEN <<>>
    ELSE IF lo = hi THEN segments[lo].amount_in
    ELSE BAdd(SegmentsIn(segments, lo, (lo + hi) \div 2),
              SegmentsIn(segments, (lo + hi) \div 2 + 1, hi))

\* the last segment takes the smaller of what the segments before it left,
\* `before` being their sum, and the maximum to the next tick from its
\* start, and its fee is floor(amount_in * fee_bps / 10000)
LastSegmentRight(last, before) ==
    /\ BLe(before, args.amount_in)
    /\ last.amount_in
         = BMin(BSub(args.amount_in, before),
                max_amount_from(last.sqrt_price_start, last.tick_start, args).val)
    /\ last.fee_amount = BDiv(BMul(last.amount_in, N(args.fee_bps)), N(10000))
    /\ BLe(BAdd(before, last.amount_in), args.amount_in)
    /\ (IsOk(result) /\ Len(result.val) < SWAP_MAX_SEGMENTS)
       => BAdd(before, last.amount_in) = args.amount_in

\* C20: whenever simulate_swap_with_ticks returns Ok(segments), there are at
\* most 1000 segments, each segment's amount_in is the smaller of the
\* remaining input and the maximum input to the next tick, its fee_amount is
\* floor(amount_in * fee_bps / 10000), and the amounts sum to amount_in
\* unless exactly 1000 segments were produced, when the sum is at most
\* amount_in.  Every segment of a returned list is the last segment of some
\* state of the loop, where it is checked.
C20_SwapSegments ==
    (call = "simulate_swap_with_ticks" /\ loop # NoLoop)
    => /\ Len(loop.segments) <= SWAP_MAX_SEGMENTS
       /\ IsOk(result) => result.val = loop.segments
       /\ IF loop.segments = <<>> THEN IsOk(result) => args.amount_in = <<>>
          ELSE LastSegmentRight(loop.segments[Len(loop.segments)],
                                SegmentsIn(loop.segments, 1, Len(loop.segments) - 1))

\* a swap returned in several segments that sum to its input
C20_Witness ==
    /\ call = "simulate_swap_with_ticks" /\ IsOk(result)
    /\ Len(result.val) > 1 /\ Len(result.val) < SWAP_MAX_SEGMENTS
    /\ result.val[1].amount_in # result.val[Len(result.val)].amount_in
    /\ SegmentsIn(result.val, 1, Len(result.val)) = args.amount_in

\* a swap returned at the cap of 1000 segments with input left over
SwapCapReached ==
    /\ call = "simulate_swap_with_ticks" /\ IsOk(result)
    /\ Len(result.val) = SWAP_MAX_SEGMENTS
    /\ BLt(SegmentsIn(result.val, 1, Len(result.val)), args.amount_in)
(***************************************************************************)
(* newton_raphson_sandwich_optimization (uniswap_v2/math.rs), the golden   *)
(* section search of the V2 family, one iteration of its loop a step.      *)
(* loop holds a, b, c, d, fc, fd and the iterations run; loop.failed tells *)
(* whether calculate_v2_sandwich_profit has returned an error to it.       *)
(***************************************************************************)
V2_PHI_INV_SCALED == 618033988

V2_SCALE == 1000000000

V2_OPT_ITERATIONS == 50

\* the - of U256: it panics when the difference is negative
u256_sub(a, b) == IF BLe(b, a) THEN Ok(BSub(a, b)) ELSE Panic

\* diff.saturating_mul(PHI_INV_SCALED) / SCALE
v2_golden(diff) == BDiv(saturating_mul(diff, N(V2_PHI_INV_SCALED)), N(V2_SCALE))

\* (victim_amount / 10000).max(1)
v2_opt_tolerance(victim_amount) == BMax(BDiv(victim_amount, N(10000)), N(1))

\* the profit function at the front-run amount x
v2_opt_profit(x, a) ==
    calculate_v2_sandwich_profit(x, a.victim_amount, a.reserve_in, a.reserve_out,
                                 a.fee_bps, a.aave_fee_bps)

\* the loop's variables with the profits at c and d evaluated:
\* .unwrap_or(U256::zero()) turns an error into a profit of zero
v2_opt_evaluated(a, b, c, d, it, failed, pc, pd) ==
    [a |-> a, b |-> b, c |-> c, d |-> d,
     fc |-> unwrap_or(pc, <<>>), fd |-> unwrap_or(pd, <<>>), it |-> it,
     failed |-> failed \/ ~IsOk(pc) \/ ~IsOk(pd)]

\* the variables before the loop: c and d are swapped if c > d
v2_opt_first(victim_amount, golden_diff, a) ==
    Then(u256_add(<<>>, golden_diff), LAMBDA c :
    Then(u256_sub(victim_amount, golden_diff), LAMBDA d :
      Ok(v2_opt_evaluated(<<>>, victim_amount, BMin(c, d), BMax(c, d), 0, FALSE,
                          v2_opt_profit(BMin(c, d), a), v2_opt_profit(BMax(c, d), a)))))

v2_opt_init(a) ==
    Then(u256_sub(a.victim_amount, <<>>), LAMBDA diff :
      v2_opt_first(a.victim_amount, v2_golden(diff), a))

\* the branch fc < fd: the maximum is in [c, b]
v2_opt_right(l, a) ==
    Then(u256_sub(l.b, l.c), LAMBDA new_diff :
    Then(u256_sub(l.b, v2_golden(new_diff)), LAMBDA d :
      Ok([l EXCEPT !.a = l.c, !.c = l.d, !.fc = l.fd, !.d = d,
                   !.fd = unwrap_or(v2_opt_profit(d, a), <<>>),
                   !.it = l.it + 1,
                   !.failed = l.failed \/ ~IsOk(v2_opt_profit(d, a))])))

\* the other branch: the maximum is in [a, d]
v2_opt_left(l, a) ==
    Then(u256_sub(l.d, l.a), LAMBDA new_diff :
    Then(u256_add(l.a, v2_golden(new_diff)), LAMBDA c :
      Ok([l EXCEPT !.b = l.d, !.d = l.c, !.fd = l.fc, !.c = c,
                   !.fc = unwrap_or(v2_opt_profit(c, a), <<>>),
                   !.it = l.it + 1,
                   !.failed = l.failed \/ ~IsOk(v2_opt_profit(c, a))])))

\* one iteration that does not break
v2_opt_iteration(l, a) ==
    IF BLt(l.fc, l.fd) THEN v2_opt_right(l, a) ELSE v2_opt_left(l, a)

\* if b.saturating_sub(a) < tolerance { break; }
v2_opt_converged(l, a) ==
    BLt(saturating_sub(l.b, l.a), v2_opt_tolerance(a.victim_amount))

\* Ok((a + b) / U256::from(2))
v2_opt_result(l) == Then(u256_add(l.a, l.b), LAMBDA s : Ok(BDiv(s, N(2))))
\* victim amounts: none, the smallest, small ones, one ether and the largest U256
OptVictims == {N(0), N(1), N(51), N(100), N(10000), Pow10(18), MaxU256}

\* pools <<reserve_in, reserve_out>>: an empty side, tiny, skewed and deep ones
OptPools == {<<N(0), N(5)>>, <<N(1), N(1)>>, <<N(10), N(5)>>, <<N(10), N(100)>>,
             <<N(100), N(10000)>>, <<Pow10(21), Pow10(21)>>}

OptFees == {0, 30}

OptArgs == {[victim_amount |-> v, reserve_in |-> p[1], reserve_out |-> p[2],
             fee_bps |-> f, aave_fee_bps |-> g] :
              v \in OptVictims, p \in OptPools, f \in OptFees, g \in AaveFees}

InitOpt == /\ call = "none"
           /\ args \in OptArgs
           /\ result = NoResult
           /\ loop = NoLoop

\* the call up to its loop
V2OptCall ==
    /\ call = "none"
    /\ call' = "newton_raphson_sandwich_optimization"
    /\ \E r \in {v2_opt_init(args)} :
         IF IsOk(r) THEN loop' = r.val /\ result' = NoResult
                    ELSE loop' = NoLoop /\ result' = r
    /\ UNCHANGED args

\* one iteration that does not break: a panic in it ends the call
V2OptIteration ==
    /\ call = "newton_raphson_sandwich_optimization"
    /\ loop # NoLoop /\ result = NoResult
    /\ loop.it < V2_OPT_ITERATIONS
    /\ ~v2_opt_converged(loop, args)
    /\ \E r \in {v2_opt_iteration(loop, args)} :
         IF IsOk(r) THEN loop' = r.val /\ result' = NoResult
                    ELSE loop' = loop /\ result' = r
    /\ UNCHANGED <<call, args>>

\* the break, or the end of the 50 iterations, and the midpoint of [a, b]
V2OptReturn ==
    /\ call = "newton_raphson_sandwich_optimization"
    /\ loop # NoLoop /\ result = NoResult
    /\ loop.it = V2_OPT_ITERATIONS \/ v2_opt_converged(loop, args)
    /\ result' = v2_opt_result(loop)
    /\ UNCHANGED <<call, args, loop>>

NextOpt == V2OptCall \/ V2OptIteration \/ V2OptReturn

SpecOpt == InitOpt /\ [][NextOpt]_vars

\* C11: every optimiser propagates a failure of its profit function: once
\* calculate_v2_sandwich_profit has returned an error at a point the
\* optimiser evaluated, newton_raphson_sandwich_optimization does not return
\* an Ok front-run amount.
C11_OptimiserPropagatesProfitError ==
    (call = "newton_raphson_sandwich_optimization" /\ loop # NoLoop /\ loop.failed)
    => ~IsOk(result)

\* a call of the V2 optimiser does not panic
V2OptNeverPanics ==
    call = "newton_raphson_sandwich_optimization" => result # Panic

(***************************************************************************)
(* The golden-section optimisers of the Curve and Balancer families and    *)
(* Brent's method of the V3 family.  The searches only compare the profits *)
(* they are given, so the profit function is left open: args.shape names   *)
(* what it answers at a front-run amount.                                  *)
(***************************************************************************)
\* number of non-zero profits of the shape "any"
MaxProfit == 3

\* the profits of the shape "uneven": close ones and distant ones, so that a
\* parabola through three evaluations has its vertex near the middle one
UnevenProfits == {0, 1, 2, 7, 9}

\* the answers of the profit function at the front-run amount x: any of the
\* profits 0, 1, 4, 9 (unevenly spaced, so that three evaluations need not
\* lie on a line) or an error, a profit that grows with x, one that falls
\* with x, any of the profits of UnevenProfits
ProfitOutcomes(x, a) ==
    CASE a.shape = "any" ->
             {Ok(N(k * k)) : k \in 0..MaxProfit} \cup {Err("Underflow")}
      [] a.shape = "rising" -> {Ok(x)}
      [] a.shape = "falling" -> {Ok(saturating_sub(a.victim_amount, x))}
      [] a.shape = "uneven" -> {Ok(N(k)) : k \in UnevenProfits}

\* (1/phi) * 10^18
CURVE_PHI_INV_SCALED == Dec(<<61, 8033, 9887, 4989, 5000>>)

CURVE_SCALE == Pow10(18)

\* U256::from(1000000), the minimum front-run size
CURVE_MIN_FRONTRUN == 1000000

CURVE_OPT_ITERATIONS == 30

\* b.checked_sub(a)?.checked_mul(PHI_INV_SCALED)?.checked_div(SCALE)?
curve_offset(a, b) ==
    Then(checked_sub(b, a, "Underflow"), LAMBDA b_minus_a :
    Then(checked_mul(b_minus_a, CURVE_PHI_INV_SCALED), LAMBDA p :
      checked_div(p, CURVE_SCALE)))

\* c = b - (b - a) / phi
curve_point_c(a, b) ==
    Then(curve_offset(a, b), LAMBDA c_offset : checked_sub(b, c_offset, "Underflow"))

\* d = a + (b - a) / phi
curve_point_d(a, b) ==
    Then(curve_offset(a, b), LAMBDA d_offset : checked_add(a, d_offset))

\* the loop's variables once the profits pc at c and pd at d are known: the
\* first error ends the call
golden_evaluated(a, b, c, d, pc, pd) ==
    Then(pc, LAMBDA fc : Then(pd, LAMBDA fd :
      Ok([a |-> a, b |-> b, c |-> c, d |-> d, fc |-> fc, fd |-> fd, it |-> 0])))

\* the results the call can reach its loop with
curve_opt_init(a) ==
    With(curve_point_c(N(CURVE_MIN_FRONTRUN), a.victim_amount), LAMBDA c :
    With(curve_point_d(N(CURVE_MIN_FRONTRUN), a.victim_amount), LAMBDA d :
      IF ~IsOk(c) THEN {c}
      ELSE IF ~IsOk(d) THEN {d}
      ELSE {golden_evaluated(N(CURVE_MIN_FRONTRUN), a.victim_amount, c.val, d.val,
                             pc, pd) :
              pc \in ProfitOutcomes(c.val, a), pd \in ProfitOutcomes(d.val, a)}))

\* victim_amount.checked_div(10000)?
golden_tolerance(victim_amount) == BDiv(victim_amount, N(10000))

\* b.checked_sub(a)? < tolerance
curve_opt_converged(l, a) ==
    BLe(l.a, l.b) /\ BLt(BSub(l.b, l.a), golden_tolerance(a.victim_amount))

\* the branch fc < fd: the search narrows to [a, d] and c is recalculated
curve_opt_left(l, a) ==
    With(curve_point_c(l.a, l.d), LAMBDA c :
      IF ~IsOk(c) THEN {c}
      ELSE {Then(p, LAMBDA fc :
              Ok([l EXCEPT !.b = l.d, !.d = l.c, !.fd = l.fc, !.c = c.val,
                           !.fc = fc, !.it = l.it + 1])) :
              p \in ProfitOutcomes(c.val, a)})

\* the other branch: the search narrows to [c, b] and d is recalculated
curve_opt_right(l, a) ==
    With(curve_point_d(l.c, l.b), LAMBDA d :
      IF ~IsOk(d) THEN {d}
      ELSE {Then(p, LAMBDA fd :
              Ok([l EXCEPT !.a = l.c, !.c = l.d, !.fc = l.fd, !.d = d.val,
                           !.fd = fd, !.it = l.it + 1])) :
              p \in ProfitOutcomes(d.val, a)})

\* the results of one iteration that does not break
curve_opt_iteration(l, a) ==
    IF BLt(l.b, l.a) THEN {Err("Underflow")}
    ELSE IF BLt(l.fc, l.fd) THEN curve_opt_left(l, a)
    ELSE curve_opt_right(l, a)

\* a.checked_add(b)?.checked_div(2)?
curve_opt_result(l) == Then(checked_add(l.a, l.b), LAMBDA s : checked_div(s, N(2)))

\* golden ratio inverse * 10000
BALANCER_PHI_INV == 6180

\* U256::from(1000000), the minimum front-run size
BALANCER_MIN_FRONTRUN == 1000000

BALANCER_OPT_ITERATIONS == 30

\* (b - a) * PHI_INV / 10000 with the panicking operators of U256
balancer_offset(a, b) ==
    Then(u256_sub(b, a), LAMBDA b_minus_a :
    Then(u256_mul(b_minus_a, N(BALANCER_PHI_INV)), LAMBDA p :
      Ok(BDiv(p, N(10000)))))

\* c = b - (b - a) * PHI_INV / 10000
balancer_point_c(a, b) ==
    Then(balancer_offset(a, b), LAMBDA offset : u256_sub(b, offset))

\* d = a + (b - a) * PHI_INV / 10000
balancer_point_d(a, b) ==
    Then(balancer_offset(a, b), LAMBDA offset : u256_add(a, offset))

\* the results the call can reach its loop with
balancer_opt_init(a) ==
    With(balancer_point_c(N(BALANCER_MIN_FRONTRUN), a.victim_amount), LAMBDA c :
    With(balancer_point_d(N(BALANCER_MIN_FRONTRUN), a.victim_amount), LAMBDA d :
      IF ~IsOk(c) THEN {c}
      ELSE IF ~IsOk(d) THEN {d}
      ELSE {golden_evaluated(N(BALANCER_MIN_FRONTRUN), a.victim_amount, c.val,
                             d.val, pc, pd) :
              pc \in ProfitOutcomes(c.val, a), pd \in ProfitOutcomes(d.val, a)}))

\* (b - a) < tolerance, where b - a does not panic
balancer_opt_converged(l, a) ==
    BLe(l.a, l.b) /\ BLt(BSub(l.b, l.a), golden_tolerance(a.victim_amount))

\* the branch fc < fd: the search narrows to [a, d] and c is recalculated
balancer_opt_left(l, a) ==
    With(balancer_point_c(l.a, l.d), LAMBDA c :
      IF ~IsOk(c) THEN {c}
      ELSE {Then(p, LAMBDA fc :
              Ok([l EXCEPT !.b = l.d, !.d = l.c, !.fd = l.fc, !.c = c.val,
                           !.fc = fc, !.it = l.it + 1])) :
              p \in ProfitOutcomes(c.val, a)})

\* the other branch: the search narrows to [c, b] and d is recalculated
balancer_opt_right(l, a) ==
    With(balancer_point_d(l.c, l.b), LAMBDA d :
      IF ~IsOk(d) THEN {d}
      ELSE {Then(p, LAMBDA fd :
              Ok([l EXCEPT !.a = l.c, !.c = l.d, !.fc = l.fd, !.d = d.val,
                           !.fd = fd, !.it = l.it + 1])) :
              p \in ProfitOutcomes(d.val, a)})

\* the results of one iteration that does not break
balancer_opt_iteration(l, a) ==
    IF BLt(l.b, l.a) THEN {Panic}
    ELSE IF BLt(l.fc, l.fd) THEN balancer_opt_left(l, a)
    ELSE balancer_opt_right(l, a)

\* mutant: the sum of the ends of the bracket, not their mean
opt_result_unhalved(l) == u256_add(l.a, l.b)

\* Ok((a + b) / U256::from(2))
balancer_opt_result(l) == Then(u256_add(l.a, l.b), LAMBDA s : Ok(BDiv(s, N(2))))
\* brents_method_v3_sandwich_optimization (uniswap_v3/math.rs)
BRENT_MAX_ITERATIONS == 50

\* TOLERANCE: u128 = 1_000_000_000_000_000
BRENT_TOLERANCE == Pow10(15)

\* GOLDEN_RATIO_INV: u128 = 618
BRENT_GOLDEN_RATIO_INV == 618

\* U256::from(1000000000000000u128)
min_flash_loan == Pow10(15)

\* c = b - (b - a) * 618 / 1000, each step checked, then held within [a, b]
brent_first_point(a, b) ==
    Then(checked_sub(b, a, "Underflow"), LAMBDA b_minus_a :
    Then(checked_mul(b_minus_a, N(BRENT_GOLDEN_RATIO_INV)), LAMBDA p :
    Then(checked_sub(b, BDiv(p, N(1000)), "Underflow"), LAMBDA c :
      Ok(IF BLt(c, a) THEN a ELSE IF BLt(b, c) THEN b ELSE c))))

\* the input validation, made after the first point is computed
brent_valid(a) ==
    /\ a.victim_amount # <<>>
    /\ a.sqrt_price_x96 # <<>> /\ BLe(MIN_SQRT_RATIO, a.sqrt_price_x96)
    /\ a.liquidity # <<>>
    /\ BLt(min_flash_loan, a.victim_amount)

\* .map_err(|e| MathError::InvalidInput { .. })
map_err_invalid(r) == IF IsOk(r) THEN r ELSE Err("InvalidInput")

\* the loop's variables at the first point c with the profit fx at it; seen
\* is no variable of the code: it records the largest profit the profit
\* function has returned to the call
brent_started(a, c, fx) ==
    [a |-> min_flash_loan, b |-> a.victim_amount, x |-> c, w |-> c, v |-> c,
     fx |-> fx, fw |-> fx, fv |-> fx, d |-> <<>>, e |-> <<>>, it |-> 0,
     seen |-> fx]

\* the results the call can reach its loop with
brent_init(a) ==
    With(brent_first_point(min_flash_loan, a.victim_amount), LAMBDA c :
      IF ~IsOk(c) THEN {c}
      ELSE IF ~brent_valid(a) THEN {Err("InvalidInput")}
      ELSE {Then(map_err_invalid(p), LAMBDA fx : Ok(brent_started(a, c.val, fx))) :
              p \in ProfitOutcomes(c.val, a)})

\* the head of an iteration panics: (a + b) / 2 overflows or, after the
\* first iteration, b - a underflows
brent_head_panics(l) ==
    ~FitsU256(BAdd(l.a, l.b)) \/ (l.it > 0 /\ BLt(l.b, l.a))

\* if iteration > 0 && (b - a) <= two_tol { return Ok(x); }
brent_converged(l) ==
    /\ l.it > 0
    /\ ~brent_head_panics(l)
    /\ BLe(BSub(l.b, l.a), BMul(BRENT_TOLERANCE, N(2)))

\* x.checked_mul(x).and_then(|v| v.checked_mul(f)).unwrap_or(U256::zero())
sq_mul_or_zero(x, f) ==
    unwrap_or(Then(checked_mul(x, x), LAMBDA s : checked_mul(s, f)), <<>>)

\* x.checked_mul(f).unwrap_or(U256::zero())
mul_or_zero(x, f) == unwrap_or(checked_mul(x, f), <<>>)

\* the point of the parabolic step: x - step or a, x + step or b
parabolic_point(l, minus, parabolic_step) ==
    IF minus THEN unwrap_or(checked_sub(l.x, parabolic_step, "Underflow"), l.a)
    ELSE unwrap_or(checked_add(l.x, parabolic_step), l.b)

\* u >= a + tol && u <= b - tol && parabolic_step < e / 2, with the panicking
\* + and - of U256 and the short circuit of &&
parabolic_accepted(l, u, parabolic_step) ==
    Then(u256_add(l.a, BRENT_TOLERANCE), LAMBDA low :
      IF BLt(u, low) THEN Ok(FALSE)
      ELSE Then(u256_sub(l.b, BRENT_TOLERANCE), LAMBDA high :
             Ok(BLe(u, high) /\ BLt(parabolic_step, BDiv(l.e, N(2))))))

\* the step p / denominator, when the denominator is not zero and
\* p < denominator * (b - a): Ok of whether it is accepted
parabolic_step_of(l, r_sq_fxfv, q_sq_fxfw, denominator) ==
    IF denominator = <<>> THEN Ok([golden |-> TRUE, d |-> l.d])
    ELSE Then(u256_sub(l.b, l.a), LAMBDA range :
      IF ~BLt(AbsDiff(r_sq_fxfv, q_sq_fxfw),
              unwrap_or(checked_mul(denominator, range), MaxU256))
      THEN Ok([golden |-> TRUE, d |-> l.d])
      ELSE With(BDiv(AbsDiff(r_sq_fxfv, q_sq_fxfw), denominator), LAMBDA parabolic_step :
           Then(parabolic_accepted(l, parabolic_point(l, BLe(q_sq_fxfw, r_sq_fxfv),
                                                      parabolic_step),
                                   parabolic_step), LAMBDA accepted :
             Ok(IF accepted THEN [golden |-> FALSE, d |-> parabolic_step]
                ELSE [golden |-> TRUE, d |-> l.d]))))

\* the parabolic fit through (v, fv), (w, fw), (x, fx), tried when e > tol:
\* Ok of whether the golden-section step is used and of the step d otherwise
brent_parabolic(l) ==
    IF ~BLt(BRENT_TOLERANCE, l.e) THEN Ok([golden |-> TRUE, d |-> l.d])
    ELSE parabolic_step_of(l,
           sq_mul_or_zero(AbsDiff(l.x, l.w), AbsDiff(l.fx, l.fv)),
           sq_mul_or_zero(AbsDiff(l.x, l.v), AbsDiff(l.fx, l.fw)),
           mul_or_zero(AbsDiff(mul_or_zero(AbsDiff(l.x, l.w), AbsDiff(l.fx, l.fv)),
                               mul_or_zero(AbsDiff(l.x, l.v), AbsDiff(l.fx, l.fw))),
                       N(2)))

\* let search_left = x >= midpoint;
search_left(l) == BLe(BDiv(BAdd(l.a, l.b), N(2)), l.x)

\* the range of the golden-section step: x - a to the left, b - x to the right
golden_range(l) ==
    IF search_left(l) THEN saturating_sub(l.x, l.a) ELSE saturating_sub(l.b, l.x)

\* the step size d and the remembered range e of the iteration
brent_step(l, par) ==
    IF par.golden
    THEN [d |-> BDiv(mul_or_zero(golden_range(l), N(382)), N(1000)), e |-> golden_range(l)]
    ELSE [d |-> par.d, e |-> l.e]

\* the next point u: a step of d, or of tol if d < tol, in the search
\* direction and held within [a, b]
brent_next_point(l, d) ==
    With(IF BLe(BRENT_TOLERANCE, d) THEN d ELSE BRENT_TOLERANCE, LAMBDA delta :
      IF search_left(l) THEN BMax(saturating_sub(l.x, delta), l.a)
      ELSE BMin(saturating_add(l.x, delta), l.b))

\* the bracket and the points v, w, x after the profit fu at u is known
brent_update(l, u, fu) ==
    IF BLe(l.fx, fu)
    THEN With(IF BLe(l.x, u) THEN [l EXCEPT !.a = u] ELSE [l EXCEPT !.b = u], LAMBDA m :
           IF BLe(l.fw, fu) \/ l.w = l.x
           THEN [m EXCEPT !.v = l.w, !.fv = l.fw, !.w = u, !.fw = fu]
           ELSE IF BLe(l.fv, fu) \/ l.v = l.x \/ l.v = l.w
           THEN [m EXCEPT !.v = u, !.fv = fu]
           ELSE m)
    ELSE With(IF BLt(u, l.x) THEN [l EXCEPT !.a = u] ELSE [l EXCEPT !.b = u], LAMBDA m :
           [m EXCEPT !.v = l.w, !.fv = l.fw, !.w = l.x, !.fw = l.fx, !.x = u, !.fx = fu])

\* the iteration from the step on: the profit at u is evaluated, an error
\* of it ends the call
brent_stepped(l, s, a) ==
    {Then(map_err_invalid(p), LAMBDA fu :
       Ok([brent_update(l, brent_next_point(l, s.d), fu)
             EXCEPT !.d = s.d, !.e = s.e, !.it = l.it + 1,
                    !.seen = BMax(l.seen, fu)])) :
       p \in ProfitOutcomes(brent_next_point(l, s.d), a)}

\* the results of one iteration that does not return
brent_iteration(l, a) ==
    IF brent_head_panics(l) THEN {Panic}
    ELSE With(brent_parabolic(l), LAMBDA par :
           IF ~IsOk(par) THEN {par} ELSE brent_stepped(l, brent_step(l, par.val), a))
(***************************************************************************)
(* The optimisers, one loop iteration a step.  Under the shape "any" the   *)
(* bracket starts a few tolerances wide, so that every sequence of answers *)
(* of the profit function is followed; under the other shapes it is wide.  *)
(***************************************************************************)
OptShapes == {"rising", "falling"}

\* below the minimum front-run size, at it, and 300 and 1000 above it
GoldenAnyVictims == {N(0), N(999999), N(1000000), N(1000300), N(1001000)}

GoldenWideVictims == {Pow10(18), Pow10(30), MaxU256}

CurveOptArgs ==
    [victim_amount : GoldenAnyVictims, balances : {<<Pow10(21), Pow10(21)>>},
     amplification : {N(100)}, fee_bps : {4}, aave_fee_bps : {9}, shape : {"any"}]
    \cup [victim_amount : GoldenWideVictims, balances : {<<Pow10(21), Pow10(21)>>},
          amplification : {N(100)}, fee_bps : {4}, aave_fee_bps : {9},
          shape : OptShapes]

BalancerOptArgs ==
    [victim_amount : GoldenAnyVictims, balance_in : {Pow10(21)},
     balance_out : {Pow10(21)}, weight_in : {Pow10(18)}, weight_out : {Pow10(18)},
     swap_fee : {Pow10(15)}, fee_bps : {30}, aave_fee_bps : {9}, shape : {"any"}]
    \cup [victim_amount : GoldenWideVictims, balance_in : {Pow10(21)},
          balance_out : {Pow10(21)}, weight_in : {Pow10(18)},
          weight_out : {Pow10(18)}, swap_fee : {Pow10(15)}, fee_bps : {30},
          aave_fee_bps : {9}, shape : OptShapes]

\* none, the minimum flash loan, and 1, 3, 8 and 50 tolerances above it
BrentAnyVictims ==
    {N(0), min_flash_loan} \cup {MulSmall(BRENT_TOLERANCE, k) : k \in {2, 4, 9, 51}}

BrentWideVictims == {Pow10(18), Pow10(30), Pow2(246), MaxU256}

BrentOptArgs ==
    [victim_amount : BrentAnyVictims, sqrt_price_x96 : {N(0), Q96},
     liquidity : {N(0), Pow10(18)}, tick : {0}, fee_bps : {30},
     aave_fee_bps : {9}, shape : {"any"}]
    \cup [victim_amount : BrentWideVictims, sqrt_price_x96 : {Q96},
          liquidity : {Pow10(18)}, tick : {0}, fee_bps : {30}, aave_fee_bps : {9},
          shape : OptShapes]
    \cup [victim_amount : {MulSmall(BRENT_TOLERANCE, 51)}, sqrt_price_x96 : {Q96},
          liquidity : {Pow10(18)}, tick : {0}, fee_bps : {30}, aave_fee_bps : {9},
          shape : {"uneven"}]

InitOptimisers ==
    /\ call = "none"
    /\ args \in OptArgs \cup CurveOptArgs \cup BalancerOptArgs \cup BrentOptArgs
    /\ result = NoResult
    /\ loop = NoLoop

\* the call reaches its loop, or ends with an error or a panic before it
OptEnters(r) ==
    IF IsOk(r) THEN loop' = r.val /\ result' = NoResult
               ELSE loop' = NoLoop /\ result' = r

\* the iteration ends and the loop goes on, or an error or a panic ends the call
OptGoesOn(r) ==
    IF IsOk(r) THEN loop' = r.val /\ result' = NoResult
               ELSE loop' = loop /\ result' = r

OptInLoop(name) == call = name /\ loop # NoLoop /\ result = NoResult

CurveOptCall ==
    /\ call = "none"
    /\ call' = "golden_section_curve_sandwich_optimization"
    /\ \E r \in curve_opt_init(args) : OptEnters(r)
    /\ UNCHANGED args

CurveOptIteration ==
    /\ OptInLoop("golden_section_curve_sandwich_optimization")
    /\ loop.it < CURVE_OPT_ITERATIONS
    /\ ~curve_opt_converged(loop, args)
    /\ \E r \in curve_opt_iteration(loop, args) : OptGoesOn(r)
    /\ UNCHANGED <<call, args>>

CurveOptReturn ==
    /\ OptInLoop("golden_section_curve_sandwich_optimization")
    /\ loop.it = CURVE_OPT_ITERATIONS \/ curve_opt_converged(loop, args)
    /\ result' = curve_opt_result(loop)
    /\ UNCHANGED <<call, args, loop>>

BalancerOptCall ==
    /\ call = "none"
    /\ call' = "golden_section_balancer_sandwich_optimization"
    /\ \E r \in balancer_opt_init(args) : OptEnters(r)
    /\ UNCHANGED args

BalancerOptIteration ==
    /\ OptInLoop("golden_section_balancer_sandwich_optimization")
    /\ loop.it < BALANCER_OPT_ITERATIONS
    /\ ~balancer_opt_converged(loop, args)
    /\ \E r \in balancer_opt_iteration(loop, args) : OptGoesOn(r)
    /\ UNCHANGED <<call, args>>

BalancerOptReturn ==
    /\ OptInLoop("golden_section_balancer_sandwich_optimization")
    /\ loop.it = BALANCER_OPT_ITERATIONS \/ balancer_opt_converged(loop, args)
    /\ result' = balancer_opt_result(loop)
    /\ UNCHANGED <<call, args, loop>>

BrentCall ==
    /\ call = "none"
    /\ call' = "brents_method_v3_sandwich_optimization"
    /\ \E r \in brent_init(args) : OptEnters(r)
    /\ UNCHANGED args

BrentIteration ==
    /\ OptInLoop("brents_method_v3_sandwich_optimization")
    /\ loop.it < BRENT_MAX_ITERATIONS
    /\ ~brent_converged(loop)
    /\ \E r \in brent_iteration(loop, args) : OptGoesOn(r)
    /\ UNCHANGED <<call, args>>

\* the return on convergence, or after the 50 iterations: Ok(x)
BrentReturn ==
    /\ OptInLoop("brents_method_v3_sandwich_optimization")
    /\ loop.it = BRENT_MAX_ITERATIONS \/ brent_converged(loop)
    /\ result' = Ok(loop.x)
    /\ UNCHANGED <<call, args, loop>>

\* each optimiser is called on arguments of its own pool family
NextOptimisers ==
    \/ ("reserve_in" \in DOMAIN args /\ V2OptCall)
    \/ V2OptIteration
    \/ V2OptReturn
    \/ ("balances" \in DOMAIN args /\ CurveOptCall)
    \/ CurveOptIteration
    \/ CurveOptReturn
    \/ ("weight_in" \in DOMAIN args /\ BalancerOptCall)
    \/ BalancerOptIteration
    \/ BalancerOptReturn
    \/ ("liquidity" \in DOMAIN args /\ BrentCall)
    \/ BrentIteration
    \/ BrentReturn

SpecOptimisers == InitOptimisers /\ [][NextOptimisers]_vars

\* the minimum front-run size of the optimiser that was called
OptMinimum ==
    CASE call = "newton_raphson_sandwich_optimization" -> N(0)
      [] call = "golden_section_curve_sandwich_optimization" -> N(CURVE_MIN_FRONTRUN)
      [] call = "golden_section_balancer_sandwich_optimization" ->
             N(BALANCER_MIN_FRONTRUN)
      [] call = "brents_method_v3_sandwich_optimization" -> min_flash_loan

\* C5: whenever an optimiser returns Ok(x), x lies in [a_min, victim_amount],
\* with a_min = 0 for the V2 optimiser, 1,000,000 for the Curve and Balancer
\* optimisers and 10^15 for Brent's method, whatever the profit function
\* answers and however many iterations were executed.
C5_OptimiserResultInBracket ==
    (call # "none" /\ IsOk(result))
    => (BLe(OptMinimum, result.val) /\ BLe(result.val, args.victim_amount))

\* Brent's method has returned Ok(x) after all its iterations, x strictly
\* inside the bracket it started from
C5_Witness ==
    /\ call = "brents_method_v3_sandwich_optimization"
    /\ IsOk(result) /\ loop.it = BRENT_MAX_ITERATIONS
    /\ BLt(min_flash_loan, result.val) /\ BLt(result.val, args.victim_amount)

\* the optimisers that search by golden section
GoldenSectionOptimisers ==
    {"newton_raphson_sandwich_optimization",
     "golden_section_curve_sandwich_optimization",
     "golden_section_balancer_sandwich_optimization"}

\* C12: for every victim_amount, below the minimum front-run size 1,000,000
\* and close to 2^256 included, each golden-section optimiser (V2, Curve,
\* Balancer) finishes with Ok or with a typed MathError: none of its
\* subtractions b - a, b - offset and additions a + offset, a + b underflows or
\* overflows.
C12_OptimiserNeverPanics ==
    call \in GoldenSectionOptimisers => result # Panic

\* a call of the Balancer optimiser does not panic
BalancerOptNeverPanics ==
    call = "golden_section_balancer_sandwich_optimization" => result # Panic

\* a call of the Curve optimiser does not panic
CurveOptNeverPanics ==
    call = "golden_section_curve_sandwich_optimization" => result # Panic


(***************************************************************************)
(* The segments of simulate_swap_with_ticks: their two prices.             *)
(***************************************************************************)
\* a segment whose price moved
SegmentMoves(segment) == segment.sqrt_price_start # segment.sqrt_price_end

\* C21: every SwapSegment that simulate_swap_with_ticks returns has
\* sqrt_price_start # sqrt_price_end, also when the maximum amount to the
\* next tick or the price impact after the fee rounds to zero.
C21_SegmentPricesDiffer ==
    (call = "simulate_swap_with_ticks" /\ IsOk(result))
    => \A k \in 1..Len(result.val) : SegmentMoves(result.val[k])
(***************************************************************************)
(* Kyber Elastic tick math (kyber/math.rs, mod tick_math).                 *)
(***************************************************************************)
\* the constants of tick_math::get_sqrt_ratio_at_tick, one per bit 0 .. 18 of
\* abs_tick; the first is the initial ratio of an odd tick
KyberTickFactors ==
    <<Dec(<<7, 9228, 1625, 1426, 4337, 5935, 4395, 335>>),
       Dec(<<7, 9236, 853, 3051, 5764, 273, 330, 4731>>),
       Dec(<<7, 9244, 89, 3904, 8815, 6037, 603, 5061>>),
       Dec(<<7, 9259, 8585, 3327, 6714, 7573, 1493, 2305>>),
       Dec(<<7, 9284, 8573, 3545, 2263, 7324, 6464, 3871>>),
       Dec(<<7, 9340, 9702, 611, 4009, 9221, 8223, 5067>>),
       Dec(<<7, 9482, 859, 6692, 9484, 1385, 5452, 7583>>),
       Dec(<<7, 9854, 8362, 265, 77, 3226, 393, 4367>>),
       Dec(<<8, 604, 5026, 5574, 1221, 3007, 1395, 7367>>),
       Dec(<<8, 2101, 2476, 603, 8208, 1149, 722, 9671>>),
       Dec(<<8, 5107, 6046, 597, 3605, 8859, 9255, 4367>>),
       Dec(<<9, 1137, 5215, 8489, 9661, 5116, 5581, 8367>>),
       Dec(<<10, 3486, 2092, 345, 9304, 3197, 8723, 2367>>),
       Dec(<<12, 5979, 2000, 5548, 7040, 1404, 6083, 6367>>),
       Dec(<<16, 693, 8044, 2589, 9027, 5541, 9620, 9167>>),
       Dec(<<22, 6953, 4835, 4083, 4777, 8884, 6901, 2367>>),
       Dec(<<37, 6493, 68, 3684, 3368, 9529, 7672, 5167>>),
       Dec(<<76, 4681, 7836, 3146, 5726, 1066, 6428, 1367>>),
       Dec(<<191, 9006, 3551, 6431, 201, 8282, 1810, 4367>>)>>

\* U512::saturating_mul
u512_saturating_mul(a, b) == BMin(BMul(a, b), BSub(Pow2(512), <<1>>))

\* tick_math::mul_div: the low 256 bits of a * b / denominator, zero for a
\* denominator of zero
kyber_mul_div(a, b, denominator) ==
    IF denominator = <<>> THEN <<>>
    ELSE from_big_endian(SubSeq(to_big_endian(
             BDiv(u512_saturating_mul(ethers_u256_to_u512(a), ethers_u256_to_u512(b)),
                  ethers_u256_to_u512(denominator)), 64), 33, 64))

\* tick_math::div_rounding_up
kyber_div_rounding_up(numerator, denominator) ==
    IF denominator = <<>> THEN <<>>
    ELSE IF BMod(numerator, denominator) # <<>>
    THEN saturating_add(BDiv(numerator, denominator), <<1>>)
    ELSE BDiv(numerator, denominator)

\* ratio = mul_div(ratio, constant, 1 << 128) for the set bits k .. 18 of
\* abs_tick
RECURSIVE kyber_ratio_loop(_, _, _)
kyber_ratio_loop(abs_tick, k, ratio) ==
    IF k > 18 THEN ratio
    ELSE IF TickBit(abs_tick, k)
    THEN With(kyber_mul_div(ratio, KyberTickFactors[k + 1], BShl(<<1>>, 128)),
              LAMBDA r : kyber_ratio_loop(abs_tick, k + 1, r))
    ELSE kyber_ratio_loop(abs_tick, k + 1, ratio)

\* the ratio of a tick that is no fast path; U256::from(1u128) << 256 is the
\* numerator of a negative tick
kyber_tick_ratio(tick) ==
    With(kyber_ratio_loop(tick_abs(tick), 1,
                          IF TickBit(tick_abs(tick), 0) THEN KyberTickFactors[1]
                          ELSE BShl(<<1>>, 128)),
         LAMBDA ratio : IF tick < 0 THEN kyber_div_rounding_up(BShl(<<1>>, 256), ratio)
                        ELSE ratio)

kyber_get_sqrt_ratio_at_tick(tick) ==
    IF tick < MIN_TICK \/ tick > MAX_TICK THEN Err("InvalidInput")
    ELSE IF tick = 0 THEN Ok(Q96)
    ELSE IF tick = -887272 THEN Ok(Dec(<<42, 9512, 8739>>))
    ELSE IF tick = 887272 THEN Ok(get_max_sqrt_ratio)
    ELSE Ok(BShr(kyber_tick_ratio(tick), 32))

(***************************************************************************)
(* The price of a tick by the Uniswap V3 function and by the Kyber one.    *)
(***************************************************************************)
\* the Kyber function on the tick the Uniswap V3 function was called with
KyberGetSqrtRatioAtTick ==
    /\ call = "get_sqrt_ratio_at_tick"
    /\ call' = "tick_math::get_sqrt_ratio_at_tick"
    /\ args' = [tick |-> args.tick, uniswap_v3 |-> result]
    /\ result' = kyber_get_sqrt_ratio_at_tick(args.tick)
    /\ UNCHANGED loop

NextKyberTick == GetSqrtRatioAtTick \/ KyberGetSqrtRatioAtTick

SpecKyberTick == InitTick /\ [][NextKyberTick]_vars

\* C22: for every tick in [MIN_TICK, MAX_TICK], the Kyber
\* tick_math::get_sqrt_ratio_at_tick returns the same Q64.96 value as the
\* Uniswap V3 get_sqrt_ratio_at_tick, for negative and for positive ticks.
C22_KyberSqrtRatioIsV3 ==
    (call = "tick_math::get_sqrt_ratio_at_tick"
     /\ args.tick >= MIN_TICK /\ args.tick <= MAX_TICK)
    => (IsOk(result) /\ result = args.uniswap_v3)

\* the two functions agree on the ticks of their fast paths and outside the
\* range
KyberFastPathsAreV3 ==
    (call = "tick_math::get_sqrt_ratio_at_tick"
     /\ (args.tick \in {MIN_TICK, 0, MAX_TICK} \/ args.tick < MIN_TICK \/ args.tick > MAX_TICK))
    => result = args.uniswap_v3

\* the Kyber function returns zero for every negative tick but MIN_TICK
KyberNegativeTickIsZero ==
    (call = "tick_math::get_sqrt_ratio_at_tick"
     /\ args.tick > MIN_TICK /\ args.tick < 0)
    => result = Ok(<<>>)

(***************************************************************************)
(* The bracket [a, b] of the golden-section searches and the maximum of a  *)
(* unimodal profit function.                                               *)
(***************************************************************************)
\* the largest victim_amount for which the profit of the V2 family is
\* tabulated at every front-run amount
MaxProfilePoints == 100

\* the machine integer of a value below the radix
SmallInt(v) == IF v = <<>> THEN 0 ELSE v[1]

\* the profit the V2 search sees at each front-run amount 0 .. victim_amount
V2ProfitAt(a) ==
    [x \in 0..SmallInt(a.victim_amount) |-> unwrap_or(v2_opt_profit(N(x), a), <<>>)]

\* the points p of lo .. hi such that f does not fall before p and does not
\* rise after it; the set is empty if f is not unimodal
UnimodalPeaks(f, lo, hi) ==
    {p \in lo..hi : \A x \in lo..(hi - 1) :
                      IF x < p THEN BLe(f[x], f[x + 1]) ELSE BLe(f[x + 1], f[x])}

\* the maximisers of the profit function of the call if it is known to be
\* unimodal on [a_min, victim_amount]
OptPeaks ==
    IF call = "newton_raphson_sandwich_optimization"
    THEN IF BLe(args.victim_amount, N(MaxProfilePoints))
         THEN With(V2ProfitAt(args), LAMBDA f :
                {N(p) : p \in UnimodalPeaks(f, 0, SmallInt(args.victim_amount))})
         ELSE {}
    ELSE CASE args.shape = "rising" -> {args.victim_amount}
           [] args.shape = "falling" -> {OptMinimum}
           [] OTHER -> {}

\* C23: for a unimodal profit function the golden-section optimisers of the
\* V2, Curve and Balancer families keep a maximiser x* inside [a, b] before
\* the first iteration and after every iteration.
C23_MaximiserStaysInBracket ==
    (call \in GoldenSectionOptimisers /\ loop # NoLoop /\ OptPeaks # {})
    => \E p \in OptPeaks : BLe(loop.a, p) /\ BLe(p, loop.b)

\* the four points of a golden-section search in order
PointsOrdered(l) == BLe(l.a, l.c) /\ BLe(l.c, l.d) /\ BLe(l.d, l.b)

\* C24: in the golden-section optimisers of the V2, Curve and Balancer
\* families a <= c <= d <= b holds before the first iteration and after
\* every iteration, for every profit function and every victim_amount that
\* is at least the minimum front-run amount.
C24_PointsStayOrdered ==
    (call \in GoldenSectionOptimisers /\ loop # NoLoop) => PointsOrdered(loop)

\* C25: brents_method_v3_sandwich_optimization performs at most 50
\* iterations, and the point x it returns, on convergence or at the cap, is
\* the best point seen: its profit is at least the profit at every point
\* where the profit function was evaluated during the run.
C25_BrentReturnsBestSeen ==
    (call = "brents_method_v3_sandwich_optimization" /\ loop # NoLoop)
    => /\ loop.it <= BRENT_MAX_ITERATIONS
       /\ IsOk(result) => (result.val = loop.x /\ BLe(loop.seen, loop.fx))

\* the profit at the point the search holds as x never exceeds the profit at
\* the points w and v it remembers
BrentHoldsWorstPoint ==
    (call = "brents_method_v3_sandwich_optimization" /\ loop # NoLoop)
    => (BLe(loop.fx, loop.fw) /\ BLe(loop.fx, loop.fv))

\* the number of iterations stays within the cap
BrentIterationsCapped ==
    (call = "brents_method_v3_sandwich_optimization" /\ loop # NoLoop)
    => loop.it <= BRENT_MAX_ITERATIONS

\* C30: in brents_method_v3_sandwich_optimization the bracket satisfies
\* min_flash_loan <= a <= b <= victim_amount at the start of every
\* iteration, for every profit function and every accepted step, so that
\* the unchecked b - a and a + b of the loop neither underflow nor overflow:
\* the call does not panic.
C30_BrentBracketOrdered ==
    (call = "brents_method_v3_sandwich_optimization" /\ loop # NoLoop)
    => /\ result # Panic
       /\ loop.it < BRENT_MAX_ITERATIONS
          => /\ BLe(min_flash_loan, loop.a) /\ BLe(loop.a, loop.b)
             /\ BLe(loop.b, args.victim_amount)

\* the ends of the bracket stay within [min_flash_loan, victim_amount], and
\* so does x, whatever their order
BrentPointsInRange ==
    (call = "brents_method_v3_sandwich_optimization" /\ loop # NoLoop)
    => \A p \in {loop.a, loop.b, loop.x} :
         BLe(min_flash_loan, p) /\ BLe(p, args.victim_amount)
(***************************************************************************)
(* sqrt_price_to_tick on prices between two ticks.                         *)
(***************************************************************************)
PriceParts == 3

\* the price k / PriceParts of the way from the price of tick to the price
\* of tick + 1
price_between(tick, k) ==
    With(get_sqrt_ratio_at_tick(tick).val, LAMBDA lo :
    With(get_sqrt_ratio_at_tick(tick + 1).val, LAMBDA hi :
      BAdd(lo, BDiv(MulSmall(BSub(hi, lo), k), N(PriceParts)))))

\* prices at and between the ticks of TickSamples, and one below a tick
PriceSamples ==
    {price_between(t, k) :
       t \in {s \in TickSamples : MIN_TICK <= s /\ s < MAX_TICK}, k \in 0..(PriceParts - 1)}
    \cup {BSub(get_sqrt_ratio_at_tick(t).val, <<1>>) : t \in {-1, 1, 64, MAX_TICK}}

InitClosest == /\ call = "none"
               /\ args \in [sqrt_price_x96 : PriceSamples]
               /\ result = NoResult
               /\ loop = NoLoop

\* which return of sqrt_price_to_tick the Newton loop reaches from its
\* iteration it on
RECURSIVE tick_newton_path(_, _, _, _)
tick_newton_path(tick, sqrt_price_x96, tolerance, it) ==
    IF it = TICK_MAX_ITERATIONS THEN "fallback"
    ELSE With(check_convergence(tick, sqrt_price_x96, tolerance), LAMBDA converged :
           IF ~IsOk(converged) THEN "error"
           ELSE IF converged.val THEN "converged"
           ELSE With(newton_iteration(tick, sqrt_price_x96), LAMBDA tick_new :
                  IF ~IsOk(tick_new) THEN "error"
                  ELSE IF tick_new.val = tick THEN "fallback"
                  ELSE tick_newton_path(tick_new.val, sqrt_price_x96, tolerance, it + 1)))

\* which return of sqrt_price_to_tick a price reaches
sqrt_price_to_tick_path(sqrt_price_x96) ==
    IF BLt(sqrt_price_x96, MIN_SQRT_RATIO) THEN "fast"
    ELSE IF BLe(get_max_sqrt_ratio, sqrt_price_x96) THEN "fast"
    ELSE IF sqrt_price_x96 = Q96 THEN "fast"
    ELSE IF sqrt_price_x96 = MIN_SQRT_RATIO THEN "fast"
    ELSE With(calculate_initial_guess(sqrt_price_x96), LAMBDA tick :
           IF ~IsOk(tick) THEN "error"
           ELSE tick_newton_path(tick.val, sqrt_price_x96,
                  unwrap_or(checked_div(sqrt_price_x96, Pow10(9)), N(1)), 0))

\* sqrt_price_to_tick called with a price
SqrtPriceToTickOfPrice ==
    /\ call = "none"
    /\ call' = "sqrt_price_to_tick"
    /\ result' = sqrt_price_to_tick(args.sqrt_price_x96)
    /\ UNCHANGED <<args, loop>>

NextClosest == SqrtPriceToTickOfPrice

SpecClosest == InitClosest /\ [][NextClosest]_vars

\* the distance of the price of tick t from the price p
tick_distance(t, p) == AbsDiff(get_sqrt_ratio_at_tick(t).val, p)

\* t is at least as close to p as its neighbours in [MIN_TICK, MAX_TICK]
IsClosestTick(t, p) ==
    With(tick_distance(t, p), LAMBDA dist :
      \A n \in {t - 1, t + 1} \cap (MIN_TICK..MAX_TICK) : BLe(dist, tick_distance(n, p)))

\* a price strictly between MIN_SQRT_RATIO and MAX_SQRT_RATIO
PriceInRange(p) == BLt(MIN_SQRT_RATIO, p) /\ BLt(p, get_max_sqrt_ratio)

\* C26: for every sqrt price p with MIN_SQRT_RATIO < p < MAX_SQRT_RATIO,
\* sqrt_price_to_tick(p) returns a tick whose price is at least as close to
\* p as the prices of its neighbours t - 1 and t + 1 in the tick range,
\* whether the Newton loop converged or the binary search produced it.
C26_ClosestTick ==
    (call = "sqrt_price_to_tick" /\ PriceInRange(args.sqrt_price_x96))
    => IsOk(result) /\ IsClosestTick(result.val, args.sqrt_price_x96)

\* the tick of a converged Newton loop is a closest one
ConvergedIsClosest ==
    (call = "sqrt_price_to_tick" /\ PriceInRange(args.sqrt_price_x96)
       /\ sqrt_price_to_tick_path(args.sqrt_price_x96) = "converged")
    => IsOk(result) /\ IsClosestTick(result.val, args.sqrt_price_x96)

\* the tick of the binary search is the one at or below the price
FallbackIsFloorTick ==
    (call = "sqrt_price_to_tick" /\ PriceInRange(args.sqrt_price_x96)
       /\ sqrt_price_to_tick_path(args.sqrt_price_x96) = "fallback")
    => /\ IsOk(result)
       /\ BLe(get_sqrt_ratio_at_tick(result.val).val, args.sqrt_price_x96)
       /\ BLt(args.sqrt_price_x96, get_sqrt_ratio_at_tick(result.val + 1).val)
(***************************************************************************)
(* find_next_initialized_tick on sorted lists of ticks.                    *)
(***************************************************************************)
MaxCurrentTick == 7

MaxTickSpacing == 3

\* the ticks a list is drawn from
ListTicks == {-6, -3, 0, 2, 5}

\* the elements of a set of ticks in rising order
RECURSIVE SortedTicks(_)
SortedTicks(S) ==
    IF S = {} THEN <<>>
    ELSE With(CHOOSE x \in S : \A y \in S : x <= y,
              LAMBDA least : <<least>> \o SortedTicks(S \ {least}))

InitNextTick ==
    /\ call = "none"
    /\ args \in [current_tick : (-MaxCurrentTick)..MaxCurrentTick,
                 initialized_ticks : {SortedTicks(S) : S \in SUBSET ListTicks},
                 tick_spacing : 1..MaxTickSpacing]
    /\ result = NoResult
    /\ loop = NoLoop

FindNextInitializedTick ==
    /\ call = "none"
    /\ call' = "find_next_initialized_tick"
    /\ result' = find_next_initialized_tick(args.current_tick, args.initialized_ticks,
                                            args.tick_spacing)
    /\ UNCHANGED <<args, loop>>

NextNextTick == FindNextInitializedTick

SpecNextTick == InitNextTick /\ [][NextNextTick]_vars

\* the elements of a list that are greater than current_tick
TicksAfter(current_tick, initialized_ticks) ==
    {t \in {initialized_ticks[k] : k \in 1..Len(initialized_ticks)} : t > current_tick}

\* the smallest multiple of tick_spacing greater than current_tick
NextMultiple(current_tick, tick_spacing) ==
    CHOOSE t \in (current_tick + 1)..(current_tick + tick_spacing) : t % tick_spacing = 0

\* C27: find_next_initialized_tick returns the smallest element of the
\* sorted list that is greater than current_tick; when there is none it
\* returns the smallest multiple of tick_spacing greater than current_tick,
\* for negative and non-negative current_tick.
C27_NextInitializedTick ==
    (call = "find_next_initialized_tick")
    => /\ IsOk(result)
       /\ \A least \in TicksAfter(args.current_tick, args.initialized_ticks) :
            (\A t \in TicksAfter(args.current_tick, args.initialized_ticks) : least <= t)
            => result.val = least
       /\ TicksAfter(args.current_tick, args.initialized_ticks) = {}
          => result.val = NextMultiple(args.current_tick, args.tick_spacing)

\* with an element above current_tick the result is the least such element
NextTickFromList ==
    (call = "find_next_initialized_tick"
       /\ TicksAfter(args.current_tick, args.initialized_ticks) # {})
    => /\ IsOk(result)
       /\ result.val \in TicksAfter(args.current_tick, args.initialized_ticks)
       /\ \A t \in TicksAfter(args.current_tick, args.initialized_ticks) : result.val <= t

\* without one, and with current_tick >= 0 or a multiple of tick_spacing,
\* the result is the next multiple
NextTickFromSpacing ==
    (call = "find_next_initialized_tick"
       /\ TicksAfter(args.current_tick, args.initialized_ticks) = {}
       /\ (args.current_tick >= 0 \/ args.current_tick % args.tick_spacing = 0))
    => result = Ok(NextMultiple(args.current_tick, args.tick_spacing))

\* without one, and with current_tick < 0 and no multiple of tick_spacing,
\* the result is the second multiple above current_tick
NextTickBelowZero ==
    (call = "find_next_initialized_tick"
       /\ TicksAfter(args.current_tick, args.initialized_ticks) = {}
       /\ args.current_tick < 0 /\ args.current_tick % args.tick_spacing # 0)
    => result = Ok(NextMultiple(args.current_tick, args.tick_spacing) + args.tick_spacing)
(***************************************************************************)
(* Balancer weighted pools (balancer/math.rs): calculate_swap_output.      *)
(***************************************************************************)
SCALE_18 == Pow10(18)

\* as_u128 of a U256: it panics from 2^128 on
as_u128(v) == IF BLt(v, Pow2(128)) THEN Ok(v) ELSE Panic

\* scale^2 / x, or scale when the square does not fit
ln_work_x(x, scale) ==
    unwrap_or(Then(checked_mul(scale, scale), LAMBDA v : checked_div(v, x)), scale)

\* the halvings of ln_u256_q128: <<k, normalized>>
RECURSIVE ln_normalise(_, _, _)
ln_normalise(normalized, scale, k) ==
    IF BLt(normalized, saturating_mul(scale, N(2))) THEN <<k, normalized>>
    ELSE IF k + 1 > 255 THEN <<k + 1, BDiv(normalized, N(2))>>
    ELSE ln_normalise(BDiv(normalized, N(2)), scale, k + 1)

\* scale / 1000 * 693; scale is 10^18 in every call and the product fits
ln2_scaled(scale) == BMul(BDiv(scale, N(1000)), N(693))

\* (normalized - scale) * scale / normalized
ln_frac_contribution(normalized, scale) ==
    IF BLt(scale, normalized)
    THEN BDiv(saturating_mul(BSub(normalized, scale), scale), normalized)
    ELSE <<>>

\* Ok(<<|ln(x)| * scale, is_negative>>)
ln_u256_q128(x, scale) ==
    IF x = <<>> THEN Err("InvalidInput")
    ELSE IF x = scale THEN Ok(<<(<<>>), FALSE>>)
    ELSE With(ln_normalise(IF BLt(x, scale) THEN ln_work_x(x, scale) ELSE x, scale, 0),
              LAMBDA kn :
                Ok(<<saturating_add(saturating_mul(ln2_scaled(scale), N(kn[1])),
                                    ln_frac_contribution(kn[2], scale)),
                     BLt(x, scale)>>))

\* the terms scale * (1 -/+ y + y^2/2 -/+ y^3/6) for y = x / scale >= 1
exp_terms(y, is_negative, scale) ==
    With(saturating_mul(y, y), LAMBDA y2 :
    With(saturating_mul(y2, y), LAMBDA y3 :
    With(saturating_add(scale, BDiv(saturating_mul(y2, scale), N(2))), LAMBDA positive :
    With(saturating_add(saturating_mul(y, scale),
                        BDiv(saturating_mul(y3, scale), N(6))), LAMBDA negative :
      IF is_negative THEN Ok(saturating_sub(positive, negative))
      ELSE Ok(saturating_add(
                saturating_add(
                  saturating_add(scale, saturating_mul(y, scale)),
                  BDiv(saturating_mul(y2, scale), N(2))),
                BDiv(saturating_mul(y3, scale), N(6))))))))

exp_u256_q128(x, is_negative, scale) ==
    IF is_negative /\ BLt(saturating_mul(scale, N(10)), x) THEN Ok(<<>>)
    ELSE IF ~is_negative /\ BLt(saturating_mul(scale, N(50)), x) THEN Err("Overflow")
    ELSE IF BDiv(x, scale) = <<>>
    THEN (IF is_negative THEN Ok(saturating_sub(scale, x)) ELSE Ok(saturating_add(scale, x)))
    ELSE exp_terms(BDiv(x, scale), is_negative, scale)

\* the integer-only loop pow_u256_with_fractional_exponent falls back to
RECURSIVE pow_fallback(_, _, _, _)
pow_fallback(acc, base_pow, exp, scale) ==
    IF exp = <<>> THEN acc
    ELSE pow_fallback(
           IF BMod(exp, N(2)) = <<1>>
           THEN unwrap_or(Then(checked_mul(acc, base_pow),
                               LAMBDA v : checked_div(v, scale)), scale)
           ELSE acc,
           unwrap_or(Then(checked_mul(base_pow, base_pow),
                          LAMBDA v : checked_div(v, scale)), base_pow),
           BDiv(exp, N(2)), scale)

\* ln(base) * exp_int + ln(base) * exp_frac / scale
pow_total_exp(ln_base, exp_int, exp_frac, scale) ==
    saturating_add(unwrap_or(checked_mul(ln_base, exp_int), MaxU256),
                   unwrap_or(Then(checked_mul(ln_base, exp_frac),
                                  LAMBDA v : checked_div(v, scale)), <<>>))

pow_u256_with_fractional_exponent(base, exp_int, exp_frac, scale) ==
    IF base = <<>> THEN <<>>
    ELSE IF exp_int = <<>> /\ exp_frac = <<>> THEN scale
    ELSE IF base = scale THEN scale
    ELSE With(ln_u256_q128(base, scale), LAMBDA ln_result :
           IF ~IsOk(ln_result) THEN <<>>
           ELSE With(exp_u256_q128(pow_total_exp(ln_result.val[1], exp_int, exp_frac, scale),
                                   ln_result.val[2], scale),
                     LAMBDA e :
                       IF IsOk(e) THEN e.val
                       ELSE pow_fallback(scale, base, exp_int, scale)))

\* amount_in - amount_in * swap_fee / scale, both saturating
swap_amount_in_with_fee(a) ==
    saturating_sub(a.amount_in, BDiv(saturating_mul(a.amount_in, a.swap_fee), SCALE_18))

\* balance_in + amount_in_with_fee, saturating
swap_denominator(a) == saturating_add(a.balance_in, swap_amount_in_with_fee(a))

\* balance_in * scale / denominator
swap_ratio(a) == BDiv(saturating_mul(a.balance_in, SCALE_18), swap_denominator(a))

\* weight_in * scale / weight_out
swap_exponent_raw(a) == BDiv(saturating_mul(a.weight_in, SCALE_18), a.weight_out)

\* ratio^exponent from the integer part of the exponent
swap_ratio_power(a, exponent_int) ==
    pow_u256_with_fractional_exponent(swap_ratio(a), BLowBits(exponent_int, 64),
                                      BMod(swap_exponent_raw(a), SCALE_18), SCALE_18)

\* scale - ratio_power, or zero
swap_one_minus(ratio_power) ==
    IF BLt(ratio_power, SCALE_18) THEN BSub(SCALE_18, ratio_power) ELSE <<>>

calculate_swap_output(a) ==
    IF a.amount_in = <<>> THEN Ok(<<>>)
    ELSE IF a.balance_in = <<>> \/ a.balance_out = <<>> THEN Err("InvalidInput")
    ELSE IF a.weight_in = <<>> \/ a.weight_out = <<>> THEN Err("InvalidInput")
    ELSE IF swap_denominator(a) = <<>> THEN Err("DivisionByZero")
    ELSE Then(as_u128(BDiv(swap_exponent_raw(a), SCALE_18)), LAMBDA exponent_int :
           Ok(BDiv(saturating_mul(a.balance_out,
                                  swap_one_minus(swap_ratio_power(a, exponent_int))),
                   SCALE_18)))

\* amounts, balances, weights and fees in 18 decimals, usual and huge
SwapOutputAmounts == {N(0), Pow10(18), Pow2(200), MaxU256}

SwapOutputBalances == {N(0), Pow10(21), Pow2(250), MaxU256}

SwapOutputWeights == {N(0), N(1), MulSmall(Pow10(17), 2), MulSmall(Pow10(17), 5), Pow2(250)}

SwapOutputFees == {N(0), MulSmall(Pow10(15), 3), Pow10(18), Pow2(100)}

InitSwapOutput ==
    /\ call = "none"
    /\ args \in [amount_in : SwapOutputAmounts, balance_in : SwapOutputBalances,
                 balance_out : SwapOutputBalances, weight_in : SwapOutputWeights,
                 weight_out : SwapOutputWeights, swap_fee : SwapOutputFees]
    /\ result = NoResult
    /\ loop = NoLoop

CalculateSwapOutput ==
    /\ call = "none"
    /\ call' = "calculate_swap_output"
    /\ result' = calculate_swap_output(args)
    /\ UNCHANGED <<args, loop>>

NextSwapOutput == CalculateSwapOutput

SpecSwapOutput == InitSwapOutput /\ [][NextSwapOutput]_vars

\* the inputs pass the validation, so that the products are computed
SwapInputsValid(a) ==
    /\ a.amount_in # <<>> /\ a.balance_in # <<>> /\ a.balance_out # <<>>
    /\ a.weight_in # <<>> /\ a.weight_out # <<>>

\* the exact product balance_out * (scale - ratio^exponent), when the
\* exponent is computed
swap_last_product(a) ==
    With(as_u128(BDiv(swap_exponent_raw(a), SCALE_18)), LAMBDA exponent_int :
      IF IsOk(exponent_int)
      THEN BMul(a.balance_out, swap_one_minus(swap_ratio_power(a, exponent_int.val)))
      ELSE <<>>)

\* one of the products or the sum of calculate_swap_output exceeds 256 bits
SwapOutputOverflows(a) ==
    \/ ~FitsU256(BMul(a.amount_in, a.swap_fee))
    \/ ~FitsU256(BMul(a.balance_in, SCALE_18))
    \/ ~FitsU256(BMul(a.weight_in, SCALE_18))
    \/ ~FitsU256(BAdd(a.balance_in, swap_amount_in_with_fee(a)))
    \/ ~FitsU256(swap_last_product(a))

\* C28: when amount_in * swap_fee, balance_in * 10^18, weight_in * 10^18,
\* balance_out * (10^18 - ratio^exponent) or balance_in + amount_in_with_fee
\* exceeds 256 bits, the weighted-pool calculate_swap_output returns an
\* Overflow error, never an Ok amount from a clamped intermediate.
C28_SwapOutputOverflowIsError ==
    (call = "calculate_swap_output" /\ SwapInputsValid(args) /\ SwapOutputOverflows(args))
    => result = Err("Overflow")

\* calculate_swap_output returns no Overflow error at all
SwapOutputHasNoOverflowError ==
    call = "calculate_swap_output" => result # Err("Overflow")

\* with valid inputs the call is Ok unless the integer part of the exponent
\* does not fit 128 bits
SwapOutputOkOrPanic ==
    (call = "calculate_swap_output" /\ SwapInputsValid(args))
    => (IsOk(result) \/ result = Panic)
(***************************************************************************)
(* A V2 pool over a sequence of swaps in both directions.  args holds the  *)
(* reserves before the latest call and its inputs, result its return.      *)
(***************************************************************************)
MaxPoolReserve == 3

MaxPoolAmount == 3

MaxPoolSwaps == 3

\* amounts of a few units, and one whose product with 10000 leaves 256 bits
PoolAmounts == {N(k) : k \in 1..MaxPoolAmount} \cup {MaxU256}

\* the reserves <<reserve_0, reserve_1>> after the latest call: those it
\* returned, in the order of the tokens, or the old ones when it failed
PoolReserves(a, r) ==
    IF ~IsOk(r) THEN <<a.reserve_0, a.reserve_1>>
    ELSE IF a.zero_for_one THEN <<r.val[1], r.val[2]>>
    ELSE <<r.val[2], r.val[1]>>

\* the reserve the latest call took as reserve_in, and as reserve_out
PoolReserveIn(a) == IF a.zero_for_one THEN a.reserve_0 ELSE a.reserve_1

PoolReserveOut(a) == IF a.zero_for_one THEN a.reserve_1 ELSE a.reserve_0

InitPool ==
    /\ call = "none"
    /\ args \in [reserve_0 : {N(k) : k \in 1..MaxPoolReserve},
                 reserve_1 : {N(k) : k \in 1..MaxPoolReserve},
                 amount_in : {N(1)}, fee_bps : {0}, zero_for_one : {TRUE}]
    /\ result = NoResult
    /\ loop = [it |-> 0, directions |-> {}]

\* one more call of calculate_v2_post_swap_state on the pool, token 0 in or
\* token 1 in; loop counts the calls and records their directions
PoolSwap(zero_for_one) ==
    /\ loop.it < MaxPoolSwaps
    /\ \E amount_in \in PoolAmounts, fee_bps \in V2Fees :
         /\ args' = [reserve_0 |-> PoolReserves(args, result)[1],
                     reserve_1 |-> PoolReserves(args, result)[2],
                     amount_in |-> amount_in, fee_bps |-> fee_bps,
                     zero_for_one |-> zero_for_one]
         /\ result' = calculate_v2_post_swap_state(amount_in, PoolReserveIn(args'),
                                                   PoolReserveOut(args'), fee_bps)
    /\ call' = "calculate_v2_post_swap_state"
    /\ loop' = [it |-> loop.it + 1, directions |-> loop.directions \cup {zero_for_one}]

PoolSwapZeroForOne == PoolSwap(TRUE)

PoolSwapOneForZero == PoolSwap(FALSE)

NextPool == PoolSwapZeroForOne \/ PoolSwapOneForZero

SpecPool == InitPool /\ [][NextPool]_vars

\* C29: from reserves > 0, after every successful call of
\* calculate_v2_post_swap_state in a sequence of calls in either direction
\* (amount_in > 0, fee_bps in [0, 10000]) both new reserves are > 0 and
\* their product is not below the product of the reserves before the call.
C29_ReservesStayPositive ==
    (call = "calculate_v2_post_swap_state" /\ IsOk(result))
    => /\ result.val[1] # <<>> /\ result.val[2] # <<>>
       /\ BLe(BMul(PoolReserveIn(args), PoolReserveOut(args)),
              BMul(result.val[1], result.val[2]))

\* a third successful call, after calls in both directions, that paid out
\* and left a greater product
C29_Witness ==
    /\ call = "calculate_v2_post_swap_state" /\ IsOk(result)
    /\ loop.it >= 3 /\ loop.directions = {TRUE, FALSE}
    /\ args.fee_bps = 30 /\ ~args.zero_for_one
    /\ result.val[3] # <<>>
    /\ BLt(BMul(args.reserve_0, args.reserve_1), BMul(result.val[1], result.val[2]))

\* the reserves a call starts from are > 0
PoolReservesPositive == args.reserve_0 # <<>> /\ args.reserve_1 # <<>>

\* a call with the huge amount fails and leaves the pool as it was
PoolFailedCallKeepsReserves ==
    (call = "calculate_v2_post_swap_state" /\ ~IsOk(result))
    => PoolReserves(args, result) = <<args.reserve_0, args.reserve_1>>

====
